---- MODULE Spec2Model ----
(***************************************************************************)
(* Model of the bili-cloud-bot idempotent processing core:                 *)
(*   - CloudDatabase (src/database.ts): the event ledger (processed_at),   *)
(*     the daily rate limiter (daily_comment), the statistics aggregate    *)
(*     (user) and its point mirror (record);                               *)
(*   - the poll workflow of src/main.ts: checkAndComment, processAtMessage,*)
(*     checkIfUserCommentedAndPost, postComment.                           *)
(* Every await of the code is one step of the model: a step is the         *)
(* completion of the awaited operation followed by the synchronous code up *)
(* to the next await.                                                      *)
(***************************************************************************)
EXTENDS Integers, Sequences, FiniteSets, TLC

\* ------------------------------------------------------------------------
\* Bounds of the model
\* ------------------------------------------------------------------------
\* notification ids the feed can return are 1..MaxMsgId
MaxMsgId == 2
\* notifications taken up by processAtMessage in one behaviour
MaxPasses == 2
\* the clock runs from 0 to MaxTime ticks
MaxTime == 1
\* length of a calendar day and of the freshness threshold, in clock ticks
TicksPerDay == 1
\* store I/O faults and process crashes in one behaviour
MaxFaults == 1
\* calls of checkAndComment made while a cycle is in flight
MaxDropped == 1
\* direct calls of the statistics aggregate in one behaviour of SpecStats
MaxStatsCalls == 2
\* direct calls of the rate limiter in one behaviour of SpecDaily
MaxDailyCalls == 3
\* largest unitCount (imageCount) of a record
MaxImages == 1
\* direct calls of the ledger in one behaviour of SpecLedger
MaxLedgerCalls == 3
\* largest limit passed to getRecentCheckIns
MaxLimit == 2

\* ------------------------------------------------------------------------
\* Program constants
\* ------------------------------------------------------------------------
\* checkInRecords keeps the most recent 100 records
MaxRecords == 100

MsgIds == 1..MaxMsgId
Authors == {"U1", "U2"}
NoAuthor == "null"
Labels == {"cumulus", "stratus"}
DefaultLabel == "cloud"
DynIds == {"9"}
Names == {"alice"}
NoName == "null"

VARIABLES
  \* durable key-value store, one variable per key prefix
  processed_at,     \* processed_at:<id>  -> ProcessedAtMessage
  daily_comment,    \* set of <<authorId, dateKey>>: daily_comment:<authorId>:<dateKey>
  user,             \* user:<userId>      -> UserStats
  record,           \* record:<userId>:<timestamp> -> CheckInRecord
  \* wall clock (Date.now())
  now,
  \* configuration (src/config.ts)
  config,
  \* process memory of the poll loop
  isProcessing, pc, atMessages, idx, loc,
  \* history variables of the workflow
  log, posts, dayPosts, visible, cleared, ledgerAtStart, pre, faults, crashes, passes,
  \* history variables of the direct store calls
  nCalls, calls, appended, catSum, rolledBack, marked,
  \* calls of checkAndComment that found a cycle in flight
  dropped

store == <<processed_at, daily_comment, user, record>>
memory == <<config, isProcessing, pc, atMessages, idx, loc>>
history == <<log, posts, dayPosts, visible, cleared, ledgerAtStart, pre, faults, crashes, passes>>
apiHistory == <<nCalls, calls, appended, catSum, rolledBack, marked>>
vars == <<store, now, memory, history, apiHistory, dropped>>

\* ------------------------------------------------------------------------
\* Helpers
\* ------------------------------------------------------------------------
EmptyMap == [x \in {} |-> 0]

\* put(key, value) on a key-value map
Put(map, k, v) == [x \in DOMAIN map \cup {k} |-> IF x = k THEN v ELSE map[x]]

\* del(key) on a key-value map
Del(map, k) == [x \in DOMAIN map \ {k} |-> map[x]]

\* the local calendar date of a clock value (the dateKey YYYY-MM-DD)
DateKey(t) == t \div TicksPerDay

Days == 0..DateKey(MaxTime)

RECURSIVE SumSeq(_)
SumSeq(s) == IF s = <<>> THEN 0 ELSE Head(s) + SumSeq(Tail(s))

RECURSIVE SumMap(_)
SumMap(m) ==
  IF DOMAIN m = {} THEN 0
  ELSE LET k == CHOOSE x \in DOMAIN m : TRUE IN m[k] + SumMap(Del(m, k))

\* number of entries of a sequence equal to x
Count(s, x) == Cardinality({i \in 1..Len(s) : s[i] = x})

\* ------------------------------------------------------------------------
\* CloudDatabase: rate limiter
\* ------------------------------------------------------------------------
\* mutant: the key leaves the date out
hasUserCommentedToday_AnyDay(authorId, dateKey, fault) ==
  IF fault THEN FALSE ELSE \E k \in daily_comment : k[1] = authorId

\* hasUserCommentedToday: any error of db.get is answered false
hasUserCommentedToday(authorId, dateKey, fault) ==
  IF fault THEN FALSE ELSE <<authorId, dateKey>> \in daily_comment

\* recordDailyComment: the store after the put
recordDailyComment_Lost(authorId, dateKey) == daily_comment

recordDailyComment(authorId, dateKey) == daily_comment \cup {<<authorId, dateKey>>}

\* ------------------------------------------------------------------------
\* CloudDatabase: event ledger
\* ------------------------------------------------------------------------
\* isAtMessageProcessed: any error of db.get is answered false
isAtMessageProcessed_Never(atMessageId, fault) == FALSE

isAtMessageProcessed(atMessageId, fault) ==
  IF fault THEN FALSE ELSE atMessageId \in DOMAIN processed_at

ProcessedAtMessage(atMessageId, dynamicId, t) ==
  [atMessageId |-> atMessageId, dynamicId |-> dynamicId, processedAt |-> t]

\* recordProcessedAtMessage: the store after the put
recordProcessedAtMessage(m) == Put(processed_at, m.atMessageId, m)

\* ------------------------------------------------------------------------
\* CloudDatabase: statistics aggregate
\* ------------------------------------------------------------------------
CheckInRecord(dynamicId, t, cloudTypes, imageCount) ==
  [dynamicId |-> dynamicId, timestamp |-> t, cloudTypes |-> cloudTypes,
   imageCount |-> imageCount]

\* the stats recordCheckIn starts from when db.get gives nothing usable
NewUserStats(userName, rec) ==
  [userName |-> userName, totalCheckIns |-> 0, totalImages |-> 0,
   cloudTypeStats |-> EmptyMap, firstCheckIn |-> rec.timestamp,
   lastCheckIn |-> rec.timestamp, checkInRecords |-> <<>>]

\* mutant: a label is counted once per record, however often it is listed
AddCloudTypes_Distinct(stats, types) ==
  LET listed == {types[i] : i \in 1..Len(types)}
  IN [x \in DOMAIN stats \cup listed |->
        (IF x \in DOMAIN stats THEN stats[x] ELSE 0) + (IF x \in listed THEN 1 ELSE 0)]

\* cloudTypeStats[type] = (cloudTypeStats[type] || 0) + 1 for every entry
RECURSIVE AddCloudTypes(_, _)
AddCloudTypes(stats, types) ==
  IF types = <<>> THEN stats
  ELSE LET t == Head(types)
           old == IF t \in DOMAIN stats THEN stats[t] ELSE 0
       IN AddCloudTypes(Put(stats, t, old + 1), Tail(types))

\* mutant: the newest records are dropped instead of the oldest
KeepRecent_KeepsOldest(recs) ==
  IF Len(recs) > MaxRecords THEN SubSeq(recs, 1, MaxRecords) ELSE recs

\* checkInRecords.slice(-MaxRecords) once the length exceeds MaxRecords
KeepRecent(recs) ==
  IF Len(recs) > MaxRecords
  THEN SubSeq(recs, Len(recs) - MaxRecords + 1, Len(recs))
  ELSE recs

\* recordCheckIn, lines 196-214: the stats object that is put back
UpdateUserStats(base, userName, rec) ==
  [base EXCEPT !.userName = userName,
               !.totalCheckIns = @ + 1,
               !.totalImages = @ + rec.imageCount,
               !.lastCheckIn = rec.timestamp,
               !.cloudTypeStats = AddCloudTypes(@, rec.cloudTypes),
               !.checkInRecords = KeepRecent(Append(@, rec))]

\* mutant: stats without a record are taken for a first check-in
recordCheckIn_RestartsWhenEmpty(userId, userName, rec, getFault) ==
  LET base == IF getFault \/ userId \notin DOMAIN user
              THEN NewUserStats(userName, rec)
              ELSE IF user[userId].checkInRecords = <<>>
                   THEN NewUserStats(userName, rec)
                   ELSE user[userId]
  IN UpdateUserStats(base, userName, rec)

\* recordCheckIn up to the put of user:<userId>; getFault: db.get threw
recordCheckIn(userId, userName, rec, getFault) ==
  LET base == IF getFault \/ userId \notin DOMAIN user
              THEN NewUserStats(userName, rec)
              ELSE user[userId]
  IN UpdateUserStats(base, userName, rec)

\* mutant: a count that reaches zero is stored
RECURSIVE SubCloudTypes_KeepsZero(_, _)
SubCloudTypes_KeepsZero(stats, types) ==
  IF types = <<>> THEN stats
  ELSE LET t == Head(types)
           next == IF t \in DOMAIN stats /\ stats[t] # 0
                   THEN Put(stats, t, stats[t] - 1)
                   ELSE stats
       IN SubCloudTypes_KeepsZero(next, Tail(types))

\* rollback of the category counts: decrement when present and non-zero,
\* delete the key when the count reaches zero
RECURSIVE SubCloudTypes(_, _)
SubCloudTypes(stats, types) ==
  IF types = <<>> THEN stats
  ELSE LET t == Head(types)
           next == IF t \in DOMAIN stats /\ stats[t] # 0
                   THEN IF stats[t] - 1 <= 0 THEN Del(stats, t)
                        ELSE Put(stats, t, stats[t] - 1)
                   ELSE stats
       IN SubCloudTypes(next, Tail(types))

\* rollbackLastCheckIn can go on: stats exist and hold a record
canRollback(userId, getFault) ==
  /\ ~getFault
  /\ userId \in DOMAIN user
  /\ Len(user[userId].checkInRecords) # 0

\* mutant: the category counts of the removed record are left in place
rollbackLastCheckIn_KeepsTypes(s) ==
  LET n == Len(s.checkInRecords)
      lastRecord == s.checkInRecords[n]
      rest == SubSeq(s.checkInRecords, 1, n - 1)
  IN [s EXCEPT !.checkInRecords = rest,
               !.totalCheckIns = @ - 1,
               !.totalImages = @ - lastRecord.imageCount,
               !.lastCheckIn = IF Len(rest) > 0 THEN rest[Len(rest)].timestamp
                               ELSE s.firstCheckIn]

\* mutant: totalCheckIns is left as it was
rollbackLastCheckIn_KeepsTotal(s) ==
  LET n == Len(s.checkInRecords)
      lastRecord == s.checkInRecords[n]
      rest == SubSeq(s.checkInRecords, 1, n - 1)
  IN [s EXCEPT !.checkInRecords = rest,
               !.totalImages = @ - lastRecord.imageCount,
               !.cloudTypeStats = SubCloudTypes(@, lastRecord.cloudTypes),
               !.lastCheckIn = IF Len(rest) > 0 THEN rest[Len(rest)].timestamp
                               ELSE s.firstCheckIn]

\* mutant: lastCheckIn is left at the timestamp of the removed record
rollbackLastCheckIn_KeepsLast(s) ==
  LET n == Len(s.checkInRecords)
      lastRecord == s.checkInRecords[n]
      rest == SubSeq(s.checkInRecords, 1, n - 1)
  IN [s EXCEPT !.checkInRecords = rest,
               !.totalCheckIns = @ - 1,
               !.totalImages = @ - lastRecord.imageCount,
               !.cloudTypeStats = SubCloudTypes(@, lastRecord.cloudTypes)]

\* mutant: the images of the removed record stay in totalImages
rollbackLastCheckIn_KeepsImages(s) ==
  LET n == Len(s.checkInRecords)
      lastRecord == s.checkInRecords[n]
      rest == SubSeq(s.checkInRecords, 1, n - 1)
  IN [s EXCEPT !.checkInRecords = rest,
               !.totalCheckIns = @ - 1,
               !.cloudTypeStats = SubCloudTypes(@, lastRecord.cloudTypes),
               !.lastCheckIn = IF Len(rest) > 0 THEN rest[Len(rest)].timestamp
                               ELSE s.firstCheckIn]

\* rollbackLastCheckIn, lines 269-297: the stats object that is put back
rollbackLastCheckIn(s) ==
  LET n == Len(s.checkInRecords)
      lastRecord == s.checkInRecords[n]
      rest == SubSeq(s.checkInRecords, 1, n - 1)
  IN [s EXCEPT !.checkInRecords = rest,
               !.totalCheckIns = @ - 1,
               !.totalImages = @ - lastRecord.imageCount,
               !.cloudTypeStats = SubCloudTypes(@, lastRecord.cloudTypes),
               !.lastCheckIn = IF Len(rest) > 0 THEN rest[Len(rest)].timestamp
                               ELSE s.firstCheckIn]

\* ------------------------------------------------------------------------
\* Initial states
\* ------------------------------------------------------------------------
\* locals of the notification being processed (processAtMessage and callees)
NoLoc ==
  [id |-> 0, uri |-> "none", dynamicId |-> "none", authorId |-> NoAuthor,
   authorName |-> NoName, images |-> 0, cloudTypes |-> <<>>, timestamp |-> 0,
   recordSaved |-> FALSE, userStats |-> FALSE, imageInfo |-> FALSE,
   dateKey |-> 0, at |-> 0]

\* src/config.example.ts: both features enabled
DefaultConfig == [enableCloudAnalysis |-> TRUE, enableCheckInImage |-> TRUE]

InitMemory ==
  /\ isProcessing = FALSE
  /\ pc = "idle"
  /\ atMessages = <<>>
  /\ idx = 0
  /\ loc = NoLoc

InitHistory ==
  /\ log = <<>>
  /\ dropped = 0
  /\ posts = [m \in MsgIds |-> 0]
  /\ dayPosts = [k \in Authors \X Days |-> 0]
  /\ visible = {}
  /\ cleared = {}
  /\ ledgerAtStart = {}
  /\ pre = EmptyMap
  /\ faults = 0
  /\ crashes = 0
  /\ passes = 0

\* record i of k records written by earlier runs, all before time 0
PastRecord(i, k) ==
  CheckInRecord("9", i - k - 1,
                IF i % 2 = 0 THEN <<"cumulus">> ELSE <<"cumulus", "stratus">>, 1)

\* recordCheckIn applied for the earlier records lo..hi of k, in order
RECURSIVE PastStats(_, _, _, _)
PastStats(s, lo, hi, k) ==
  IF lo > hi THEN s
  ELSE IF lo = hi THEN UpdateUserStats(s, "alice", PastRecord(lo, k))
  ELSE LET mid == (lo + hi) \div 2
           half == PastStats(s, lo, mid, k)
       IN \* the first half is computed before the second is started
          IF half.totalCheckIns >= 0 THEN PastStats(half, mid + 1, hi, k) ELSE half

\* numbers of earlier check-ins of user U1 the store is opened with
PastCounts == {0, MaxRecords - 1, MaxRecords, MaxRecords + 1}

\* the store a new CloudDatabase opens: empty
InitStoreEmpty ==
  /\ processed_at = [k \in {} |-> 0]
  /\ daily_comment = {}
  /\ user = [k \in {} |-> 0]
  /\ record = [k \in {} |-> 0]
  /\ appended = [u \in Authors |-> 0]
  /\ catSum = [u \in Authors |-> 0]

\* the store a new CloudDatabase opens: U1 has k earlier check-ins
InitStorePast ==
  \E k \in PastCounts :
    /\ processed_at = [x \in {} |-> 0]
    /\ daily_comment = {}
    /\ user = IF k = 0 THEN [x \in {} |-> 0]
              ELSE [x \in {"U1"} |->
                     PastStats(NewUserStats("alice", PastRecord(1, k)), 1, k, k)]
    /\ record = [x \in {<<"U1", i - k - 1>> : i \in 1..k} |->
                   PastRecord(x[2] + k + 1, k)]
    /\ appended = [u \in Authors |-> IF u = "U1" THEN k ELSE 0]
    /\ catSum = [u \in Authors |->
                   IF u = "U1"
                   THEN Cardinality({p \in (1..k) \X (1..2) :
                                       p[2] <= Len(PastRecord(p[1], k).cloudTypes)})
                   ELSE 0]

InitApiHistory ==
  /\ nCalls = 0
  /\ calls = <<>>
  /\ rolledBack = [u \in Authors |-> 0]
  /\ marked = {}

\* ------------------------------------------------------------------------
\* The clock
\* ------------------------------------------------------------------------
AdvanceClock ==
  /\ now < MaxTime
  /\ now' = now + 1
  /\ UNCHANGED <<store, memory, history, apiHistory, dropped>>

\* ------------------------------------------------------------------------
\* Store-level specification: direct calls of CloudDatabase methods
\* ------------------------------------------------------------------------
\* category lists of a record: none, one, two distinct, one repeated
CloudTypeLists ==
  {<<>>, <<"cumulus">>, <<"stratus", "cumulus">>, <<"stratus", "stratus">>}

ImageCounts == 0..MaxImages

\* the stats of a user as a set: empty when the key is absent
StatsOf(u) == IF u \in DOMAIN user THEN {user[u]} ELSE {}

\* a call: its number, the clock at the call, its answer, the stats before it
Call(op, u, ret) ==
  [op |-> op, u |-> u, ret |-> ret, n |-> nCalls + 1, t |-> now, pre |-> StatsOf(u)]

\* the last two calls
Recent(cs) == IF Len(cs) > 2 THEN SubSeq(cs, Len(cs) - 1, Len(cs)) ELSE cs

Called(c, max) ==
  /\ nCalls < max
  /\ nCalls' = nCalls + 1
  /\ calls' = Recent(Append(calls, c))

\* cloudDB.recordCheckIn(userId, userName, record), all store operations succeed
ApiRecordCheckIn(u, name, types, n) ==
  LET rec == CheckInRecord("9", now, types, n) IN
  /\ Called(Call("append", u, TRUE), MaxStatsCalls)
  /\ user' = Put(user, u, recordCheckIn(u, name, rec, FALSE))
  /\ record' = Put(record, <<u, rec.timestamp>>, rec)
  /\ appended' = [appended EXCEPT ![u] = @ + 1]
  /\ catSum' = [catSum EXCEPT ![u] = @ + Len(types)]
  /\ UNCHANGED <<processed_at, daily_comment, now, memory, history, rolledBack, marked, dropped>>

\* mutant: the call answers true also when nothing can be rolled back
ApiRollbackLastCheckIn_AnswersTrue(u) ==
  /\ Called(Call("rollback", u, TRUE), MaxStatsCalls)
  /\ IF canRollback(u, FALSE)
     THEN LET s == user[u]
              lastRecord == s.checkInRecords[Len(s.checkInRecords)]
          IN /\ user' = Put(user, u, rollbackLastCheckIn(s))
             /\ record' = Del(record, <<u, lastRecord.timestamp>>)
             /\ rolledBack' = [rolledBack EXCEPT ![u] = @ + 1]
     ELSE UNCHANGED <<user, record, rolledBack>>
  /\ UNCHANGED <<processed_at, daily_comment, now, memory, history, appended, catSum, marked, dropped>>

\* cloudDB.rollbackLastCheckIn(userId), all store operations succeed
ApiRollbackLastCheckIn(u) ==
  /\ Called(Call("rollback", u, canRollback(u, FALSE)), MaxStatsCalls)
  /\ IF canRollback(u, FALSE)
     THEN LET s == user[u]
              lastRecord == s.checkInRecords[Len(s.checkInRecords)]
          IN /\ user' = Put(user, u, rollbackLastCheckIn(s))
             /\ record' = Del(record, <<u, lastRecord.timestamp>>)
             /\ rolledBack' = [rolledBack EXCEPT ![u] = @ + 1]
     ELSE UNCHANGED <<user, record, rolledBack>>
  /\ UNCHANGED <<processed_at, daily_comment, now, memory, history, appended, catSum, marked, dropped>>

\* cloudDB.recordDailyComment(authorId), the put succeeds
ApiRecordDailyComment(u) ==
  /\ Called(Call("mark", u, TRUE), MaxDailyCalls)
  /\ daily_comment' = recordDailyComment(u, DateKey(now))
  /\ marked' = marked \cup {<<u, now, nCalls + 1>>}
  /\ UNCHANGED <<processed_at, user, record, now, memory, history, appended, catSum, rolledBack, dropped>>

\* cloudDB.hasUserCommentedToday(authorId), the get succeeds
ApiHasUserCommentedToday(u) ==
  /\ Called(Call("has", u, hasUserCommentedToday(u, DateKey(now), FALSE)), MaxDailyCalls)
  /\ UNCHANGED <<store, now, memory, history, appended, catSum, rolledBack, marked, dropped>>

InitStore ==
  /\ InitStorePast
  /\ now = 0
  /\ config = DefaultConfig
  /\ InitMemory
  /\ InitHistory
  /\ InitApiHistory

\* calls of the statistics aggregate
NextStats ==
  \/ AdvanceClock
  \/ \E u \in Authors, name \in Names, types \in CloudTypeLists, n \in ImageCounts :
       ApiRecordCheckIn(u, name, types, n)
  \/ \E u \in Authors : ApiRollbackLastCheckIn(u)

SpecStats == InitStore /\ [][NextStats]_vars

\* calls of the rate limiter
NextDaily ==
  \/ AdvanceClock
  \/ \E u \in Authors : ApiRecordDailyComment(u)
  \/ \E u \in Authors : ApiHasUserCommentedToday(u)

SpecDaily == InitStore /\ [][NextDaily]_vars

\* ------------------------------------------------------------------------
\* Properties of the statistics aggregate
\* ------------------------------------------------------------------------
\* the aggregate of a user as a set (empty: no stats) seen as totals
TotalActions(ss) == IF ss = {} THEN 0 ELSE (CHOOSE x \in ss : TRUE).totalCheckIns
TotalUnits(ss) == IF ss = {} THEN 0 ELSE (CHOOSE x \in ss : TRUE).totalImages
Histogram(ss) == IF ss = {} THEN EmptyMap ELSE (CHOOSE x \in ss : TRUE).cloudTypeStats
RecentRecords(ss) == IF ss = {} THEN <<>> ELSE (CHOOSE x \in ss : TRUE).checkInRecords

\* the last two calls were recordCheckIn(u, ..) and then rollbackLastCheckIn(u)
AppendThenRollback ==
  /\ Len(calls) = 2
  /\ calls[1].op = "append"
  /\ calls[2].op = "rollback"
  /\ calls[1].u = calls[2].u

\* the rollback answered true and the aggregate is the one before the append
Restored ==
  LET before == calls[1].pre
      after == StatsOf(calls[2].u)
  IN /\ calls[2].ret = TRUE
     /\ TotalActions(after) = TotalActions(before)
     /\ TotalUnits(after) = TotalUnits(before)
     /\ Histogram(after) = Histogram(before)
     /\ RecentRecords(after) = RecentRecords(before)

\* C4 as claimed: append then rollbackLast restores totalActions, totalUnits,
\* categoryHistogram and recentRecords whenever recentRecords held 0..100
\* records before the append.
C4_Claimed ==
  (AppendThenRollback /\ Len(RecentRecords(calls[1].pre)) <= MaxRecords) => Restored

\* C4 amended: append then rollbackLast returns true and restores totalActions,
\* totalUnits, categoryHistogram and recentRecords whenever recentRecords held
\* 0..99 records before the append (at 100 the append evicts the oldest record,
\* which the rollback does not bring back).
C4_RollbackRestores ==
  (AppendThenRollback /\ Len(RecentRecords(calls[1].pre)) <= MaxRecords - 1) => Restored

\* an append on 99 retained records (window full afterwards) was rolled back
C4_Witness ==
  /\ AppendThenRollback
  /\ Len(RecentRecords(calls[1].pre)) = MaxRecords - 1
  /\ Len(RecentRecords(calls[2].pre)) = MaxRecords
  /\ calls[2].ret = TRUE

\* C9: after at most 100 appends for an entity and no rollback, the sum of the
\* categoryHistogram counts equals the total number of category entries of the
\* appended records.
C9_HistogramSum ==
  \A u \in Authors :
    (rolledBack[u] = 0 /\ appended[u] <= MaxRecords)
      => SumMap(Histogram(StatsOf(u))) = catSum[u]

\* 100 appends were made for U1, the last one with a repeated label
C9_Witness ==
  /\ appended["U1"] = MaxRecords
  /\ rolledBack["U1"] = 0
  /\ calls # <<>>
  /\ calls[Len(calls)].op = "append"
  /\ "U1" \in DOMAIN user
  /\ LET recs == user["U1"].checkInRecords
     IN recs[Len(recs)].cloudTypes = <<"stratus", "stratus">>

\* ------------------------------------------------------------------------
\* Properties of the rate limiter
\* ------------------------------------------------------------------------
\* recordDailyComment(u) was called before call n, on the calendar day of
\* clock value t
MarkedOn(u, t, n) ==
  \E m \in marked : m[1] = u /\ DateKey(m[2]) = DateKey(t) /\ m[3] < n

\* C8: after markActedToday(U) on day D, hasActedToday(U) is true for every
\* check on day D, false on day D+1 without a further mark, and the marks of
\* another entity never change the answer: a check answers true exactly when
\* U itself was marked on the day of the check.
C8_DailyGate ==
  \A i \in 1..Len(calls) :
    calls[i].op = "has" => (calls[i].ret = MarkedOn(calls[i].u, calls[i].t, calls[i].n))

\* U1 was marked on day D, U2 on day D+1, and U1 is checked on day D+1
C8_Witness ==
  /\ calls # <<>>
  /\ LET c == calls[Len(calls)]
     IN /\ c.op = "has"
        /\ c.u = "U1"
        /\ c.ret = FALSE
        /\ \E m \in marked : m[1] = "U1" /\ DateKey(m[2]) + 1 = DateKey(c.t)
        /\ MarkedOn("U2", c.t, c.n)

\* ------------------------------------------------------------------------
\* The poll workflow (src/main.ts): inputs
\* ------------------------------------------------------------------------
\* the freshness threshold: 24 hours
oneDayMs == TicksPerDay

\* the configurations a behaviour starts with: analysis and check-in image
\* both enabled (the default) or both disabled
Configs == {DefaultConfig,
            [enableCloudAnalysis |-> FALSE, enableCheckInImage |-> FALSE]}

\* feeds: up to two notifications, the newest (largest id) first
Feeds == {<<a>> : a \in MsgIds} \cup {f \in MsgIds \X MsgIds : f[1] > f[2]}

\* item.uri of a notification: opus form and t.bilibili.com form, each with
\* and without a numeric id, and any other form
Uris == {"/opus/9", "/opus/", "t.bilibili.com/9", "t.bilibili.com/", "other"}

\* uri.match(/(\d+)/)[1] of the two supported forms
MatchId(uri) == IF uri \in {"/opus/9", "t.bilibili.com/9"} THEN "9" ELSE "none"

IsOpus(uri) == uri \in {"/opus/9", "/opus/"}

IsDynamic(uri) == uri \in {"t.bilibili.com/9", "t.bilibili.com/"}

Sentinels == {"unparseable_opus_uri", "unparseable_uri", "invalid_uri"}

\* processAtMessage, lines 549-608: the dynamic id, or the sentinel that is
\* recorded when the uri cannot be resolved
resolveDynamicId(uri) ==
  IF IsOpus(uri)
  THEN IF MatchId(uri) # "none" THEN MatchId(uri) ELSE "unparseable_opus_uri"
  ELSE IF IsDynamic(uri)
       THEN IF MatchId(uri) # "none" THEN MatchId(uri) ELSE "unparseable_uri"
       ELSE "invalid_uri"

\* the content detail (dynamicData) the Content collaborator answers at time t:
\* author, attachments, and a creation time that is missing, exactly one day
\* old, or older than one day
Details(t) ==
  [authorId : Authors \cup {NoAuthor}, authorName : Names,
   images : 0..MaxImages, hasTime : {TRUE}, createTime : {t - oneDayMs - 1, t - oneDayMs}]
  \cup
  [authorId : Authors \cup {NoAuthor}, authorName : Names,
   images : 0..MaxImages, hasTime : {FALSE}, createTime : {0}]

\* a CloudType as extractCloudTypes returns it; confidence in hundredths,
\* kept at multiples of four so that the averages below are whole numbers
CloudType(type, confidence) == [type |-> type, confidence |-> confidence]

\* the concatenated answers of extractCloudTypes for the images of a content
\* (analyzeMultipleImagesWithTypes, lines 256-260): never empty, a label can
\* come back more than once
RawAnalyses ==
  {<<CloudType("cumulus", 80)>>,
   <<CloudType("cumulus", 80), CloudType("cumulus", 40)>>,
   <<CloudType("cumulus", 40), CloudType("stratus", 80), CloudType("cumulus", 80)>>}

\* Array.prototype.sort((a, b) => b.confidence - a.confidence): stable,
\* highest confidence first
RECURSIVE SortByConfidence(_)
SortByConfidence(cs) ==
  IF cs = <<>> THEN <<>>
  ELSE LET top == CHOOSE i \in 1..Len(cs) :
                    /\ \A j \in 1..Len(cs) : cs[j].confidence <= cs[i].confidence
                    /\ \A j \in 1..(i - 1) : cs[j].confidence < cs[i].confidence
       IN <<cs[top]>> \o
          SortByConfidence(SubSeq(cs, 1, top - 1) \o SubSeq(cs, top + 1, Len(cs)))

\* the typeMap of mergeCloudTypes after the entries of cloudTypes, in
\* insertion order: an entry whose type is present is averaged into it
RECURSIVE TypeMap(_, _)
TypeMap(map, cloudTypes) ==
  IF cloudTypes = <<>> THEN map
  ELSE LET cloud == Head(cloudTypes)
           at == {i \in 1..Len(map) : map[i].type = cloud.type}
           next == IF at # {}
                   THEN [i \in 1..Len(map) |->
                           IF i \in at
                           THEN [map[i] EXCEPT !.confidence = (@ + cloud.confidence) \div 2]
                           ELSE map[i]]
                   ELSE Append(map, cloud)
       IN TypeMap(next, Tail(cloudTypes))

\* mutant: entries of the same type are not merged
mergeCloudTypes_KeepsAll(cloudTypes) == SortByConfidence(cloudTypes)

\* mergeCloudTypes: one entry per type, sorted by confidence
mergeCloudTypes(cloudTypes) == SortByConfidence(TypeMap(<<>>, cloudTypes))

\* the labels of a list of CloudType entries, in order
TypesOf(cs) == [i \in 1..Len(cs) |-> cs[i].type]

\* what analyzeMultipleImagesWithTypes returns: the merged labels
AnalysisResults == {TypesOf(mergeCloudTypes(raw)) : raw \in RawAnalyses}

\* lines 690-713: the content is older than 24 hours
isStale(d, t) == d.hasTime /\ t - d.createTime > oneDayMs

checkImagesInDynamicCard(d) == d.images

extractAuthorId(d) == d.authorId

\* line 918: extractAuthorName(dynamicData) || `用户${authorId}`
UserNameOf(l) == IF l.authorName # NoName THEN l.authorName ELSE "anonymous"

\* ------------------------------------------------------------------------
\* The poll workflow: steps
\* ------------------------------------------------------------------------
\* a store fault is injected (fault = TRUE); store faults and crashes together
\* happen at most MaxFaults times
Fault(fault) ==
  /\ fault => faults + crashes < MaxFaults
  /\ faults' = faults + (IF fault THEN 1 ELSE 0)

Event(ev, res) == <<loc.id, ev, res>>

EndPass_AbortsCycle ==
  /\ pc' = "idle"
  /\ idx' = idx

\* the pass of the current notification returns: the for loop goes on
EndPass ==
  /\ pc' = "check"
  /\ idx' = idx + 1

\* checkAndComment is entered: the busy flag is taken and the feed requested
StartCycle ==
  /\ pc = "idle"
  /\ ~isProcessing
  /\ isProcessing' = TRUE
  /\ pc' = "feed"
  /\ log' = <<>>
  /\ ledgerAtStart' = DOMAIN processed_at
  /\ UNCHANGED <<store, now, config, atMessages, idx, loc, posts, dayPosts,
                 visible, cleared, pre, faults, crashes, passes, apiHistory, dropped>>

\* the feed answers a non-empty list of notifications
FetchFeed(items) ==
  /\ pc = "feed"
  /\ atMessages' = items
  /\ idx' = 1
  /\ pc' = "check"
  /\ UNCHANGED <<store, now, config, isProcessing, loc, history, apiHistory, dropped>>

\* mutant: the early return leaves the busy flag set
FeedNothing_KeepsBusy ==
  /\ pc = "feed"
  /\ pc' = "idle"
  /\ ledgerAtStart' = {}
  /\ UNCHANGED <<store, now, config, isProcessing, atMessages, idx, loc, log, posts,
                 dayPosts, visible, cleared, pre, faults, crashes, passes, apiHistory,
                 dropped>>

\* the feed answers nothing, or the request fails: finally clears the flag
FeedNothing ==
  /\ pc = "feed"
  /\ isProcessing' = FALSE
  /\ pc' = "idle"
  /\ ledgerAtStart' = {}
  /\ UNCHANGED <<store, now, config, atMessages, idx, loc, log, posts, dayPosts,
                 visible, cleared, pre, faults, crashes, passes, apiHistory, dropped>>

\* mutant: the detail is requested whatever the uri resolves to
AfterResolve_AlwaysFetches(uri) ==
  IF IsOpus(uri) THEN "detailOpus" ELSE "detailGeneral"

\* lines 763-775 and the sentinel branches: where the pass goes after the uri
AfterResolve(uri) ==
  IF resolveDynamicId(uri) \in Sentinels THEN "record"
  ELSE IF IsOpus(uri) THEN "detailOpus" ELSE "detailGeneral"

\* mutant: the ledger record is written when the pass starts
CheckProcessed_RecordsFirst(fault, uri) ==
  /\ pc = "check"
  /\ idx <= Len(atMessages)
  /\ Fault(fault)
  /\ LET id == atMessages[idx] IN
     IF isAtMessageProcessed(id, fault)
     THEN /\ idx' = idx + 1
          /\ loc' = NoLoc
          /\ log' = <<<<id, "skip", "">>>>
          /\ UNCHANGED <<pc, pre, passes, processed_at>>
     ELSE /\ passes < MaxPasses
          /\ passes' = passes + 1
          /\ loc' = [NoLoc EXCEPT !.id = id, !.uri = uri,
                                  !.dynamicId = resolveDynamicId(uri), !.at = now]
          /\ pc' = AfterResolve(uri)
          /\ pre' = user
          /\ log' = <<<<id, "start", "">>>>
          /\ idx' = idx
          /\ processed_at' = recordProcessedAtMessage(
                 ProcessedAtMessage(id, resolveDynamicId(uri), now))
  /\ UNCHANGED <<daily_comment, user, record, now, config, isProcessing, atMessages, posts, dayPosts,
                 visible, cleared, ledgerAtStart, crashes, apiHistory, dropped>>

\* isAtMessageProcessed answers for the next notification of the feed; a
\* processed one is skipped, otherwise processAtMessage starts on its uri
CheckProcessed(fault, uri) ==
  /\ pc = "check"
  /\ idx <= Len(atMessages)
  /\ Fault(fault)
  /\ LET id == atMessages[idx] IN
     IF isAtMessageProcessed(id, fault)
     THEN /\ idx' = idx + 1
          /\ loc' = NoLoc
          /\ log' = <<<<id, "skip", "">>>>
          /\ UNCHANGED <<pc, pre, passes>>
     ELSE /\ passes < MaxPasses
          /\ passes' = passes + 1
          /\ loc' = [NoLoc EXCEPT !.id = id, !.uri = uri,
                                  !.dynamicId = resolveDynamicId(uri), !.at = now]
          /\ pc' = AfterResolve(uri)
          /\ pre' = user
          /\ log' = <<<<id, "start", "">>>>
          /\ idx' = idx
  /\ UNCHANGED <<store, now, config, isProcessing, atMessages, posts, dayPosts,
                 visible, cleared, ledgerAtStart, crashes, apiHistory, dropped>>

\* mutant: the busy flag is not cleared
CycleDone_KeepsBusy ==
  /\ pc = "check"
  /\ idx > Len(atMessages)
  /\ isProcessing' = TRUE
  /\ pc' = "idle"
  /\ atMessages' = <<>>
  /\ idx' = 0
  /\ loc' = NoLoc
  /\ log' = <<>>
  /\ pre' = EmptyMap
  /\ ledgerAtStart' = {}
  /\ UNCHANGED <<store, now, config, posts, dayPosts, visible, cleared,
                 faults, crashes, passes, apiHistory, dropped>>

\* the for loop is over: finally clears the busy flag
CycleDone ==
  /\ pc = "check"
  /\ idx > Len(atMessages)
  /\ isProcessing' = FALSE
  /\ pc' = "idle"
  /\ atMessages' = <<>>
  /\ idx' = 0
  /\ loc' = NoLoc
  /\ log' = <<>>
  /\ pre' = EmptyMap
  /\ ledgerAtStart' = {}
  /\ UNCHANGED <<store, now, config, posts, dayPosts, visible, cleared,
                 faults, crashes, passes, apiHistory, dropped>>

\* checkIfUserCommentedAndPost up to its first await, after the freshness
\* check of processAtMessage: where the pass goes with the content detail d
AfterDetail_NoStaleCheck(d, t) ==
  IF checkImagesInDynamicCard(d) = 0 THEN "record"
  ELSE IF extractAuthorId(d) # NoAuthor THEN "gate"
  ELSE "comments"

AfterDetail_NoImageCheck(d, t) ==
  IF isStale(d, t) THEN "record"
  ELSE IF extractAuthorId(d) # NoAuthor THEN "gate"
  ELSE "comments"

AfterDetail(d, t) ==
  IF isStale(d, t) THEN "record"
  ELSE IF checkImagesInDynamicCard(d) = 0 THEN "record"
  ELSE IF extractAuthorId(d) # NoAuthor THEN "gate"
  ELSE "comments"

\* a detail request answered the content d
Fetched(d) ==
  /\ loc' = IF AfterDetail(d, now) = "record"
             THEN [loc EXCEPT !.at = now]
             ELSE [loc EXCEPT !.authorId = extractAuthorId(d),
                              !.authorName = d.authorName,
                              !.images = checkImagesInDynamicCard(d),
                              !.dateKey = DateKey(now), !.at = now]
  /\ pc' = AfterDetail(d, now)
  /\ log' = log \o <<Event("content", "ok"),
                     Event("age", IF isStale(d, now) THEN "stale" ELSE "fresh"),
                     Event("images", IF checkImagesInDynamicCard(d) = 0
                                     THEN "none" ELSE "some")>>
  /\ idx' = idx

\* the opus detail API answers; without an item the general API is tried
DetailOpus(outcome, d) ==
  /\ pc = "detailOpus"
  /\ IF outcome = "ok" THEN Fetched(d)
     ELSE /\ pc' = "detailGeneral"
          /\ log' = Append(log, Event("content", "fail"))
          /\ UNCHANGED <<idx, loc>>
  /\ UNCHANGED <<store, now, config, isProcessing, atMessages, posts, dayPosts,
                 visible, cleared, ledgerAtStart, pre, faults, crashes, passes,
                 apiHistory, dropped>>

\* mutant: a notification without content detail is recorded as processed
DetailGeneral_RecordsFailure(outcome, d) ==
  /\ pc = "detailGeneral"
  /\ IF outcome = "ok" THEN Fetched(d)
     ELSE /\ pc' = "record"
          /\ log' = Append(log, Event("content", "fail"))
          /\ UNCHANGED <<idx, loc>>
  /\ UNCHANGED <<store, now, config, isProcessing, atMessages, posts, dayPosts,
                 visible, cleared, ledgerAtStart, pre, faults, crashes, passes,
                 apiHistory, dropped>>

\* the general detail API answers; without an item the pass returns
DetailGeneral(outcome, d) ==
  /\ pc = "detailGeneral"
  /\ IF outcome = "ok" THEN Fetched(d)
     ELSE /\ EndPass
          /\ log' = Append(log, Event("content", "fail"))
          /\ UNCHANGED loc
  /\ UNCHANGED <<store, now, config, isProcessing, atMessages, posts, dayPosts,
                 visible, cleared, ledgerAtStart, pre, faults, crashes, passes,
                 apiHistory, dropped>>

\* mutant: the daily mark does not end the pass
Gate_NeverBlocks(fault) ==
  /\ pc = "gate"
  /\ Fault(fault)
  /\ LET has == hasUserCommentedToday(loc.authorId, loc.dateKey, fault) IN
     /\ log' = Append(log, Event("gate", IF has THEN "yes" ELSE "no"))
     /\ pc' = "comments"
     /\ loc' = [loc EXCEPT !.at = now]
  /\ UNCHANGED <<store, now, config, isProcessing, atMessages, idx, posts,
                 dayPosts, visible, cleared, ledgerAtStart, pre, crashes, passes,
                 apiHistory, dropped>>

\* hasUserCommentedToday answers for the author (lines 798-810)
Gate(fault) ==
  /\ pc = "gate"
  /\ Fault(fault)
  /\ LET has == hasUserCommentedToday(loc.authorId, loc.dateKey, fault) IN
     /\ log' = Append(log, Event("gate", IF has THEN "yes" ELSE "no"))
     /\ pc' = IF has THEN "record" ELSE "comments"
     /\ loc' = [loc EXCEPT !.at = now]
  /\ UNCHANGED <<store, now, config, isProcessing, atMessages, idx, posts,
                 dayPosts, visible, cleared, ledgerAtStart, pre, crashes, passes,
                 apiHistory, dropped>>

\* mutant: the record is appended also without an author id
Built_AppendsAlways(types) ==
  /\ loc' = [loc EXCEPT !.cloudTypes = types, !.timestamp = now]
  /\ pc' = IF Len(types) > 0 THEN "append" ELSE "publish"
  /\ idx' = idx

\* postComment after the analysis: the record is built and, with an author
\* id and at least one category, appended next
Built(types) ==
  /\ loc' = [loc EXCEPT !.cloudTypes = types, !.timestamp = now]
  /\ pc' = IF loc.authorId # NoAuthor /\ Len(types) > 0 THEN "append" ELSE "publish"
  /\ idx' = idx

\* the reply list answers (lines 812-842): an error, a reply of the monitored
\* account at top level or in a sub-reply, or no such reply. Only one page of
\* 30 replies is requested (ps: 30), so a reply of the monitored account that
\* exists on the content can be missing from the answer.
Comments(outcome) ==
  /\ pc = "comments"
  /\ log' = Append(log, Event("replies", IF outcome \in {"top", "sub"} THEN "found"
                                        ELSE outcome))
  /\ IF outcome = "error" THEN EndPass /\ UNCHANGED loc
     ELSE IF outcome \in {"top", "sub"}
          THEN pc' = "record" /\ loc' = [loc EXCEPT !.at = now] /\ idx' = idx
          ELSE IF config.enableCloudAnalysis
               THEN pc' = "analyze" /\ UNCHANGED <<loc, idx>>
               ELSE Built(<<DefaultLabel>>)
  /\ UNCHANGED <<store, now, config, isProcessing, atMessages, posts, dayPosts,
                 visible, cleared, ledgerAtStart, pre, faults, crashes, passes,
                 apiHistory, dropped>>

\* mutant: after a failed analysis the pass goes on with the default label
Analyze_FailureGoesOn(outcome, types) ==
  /\ pc = "analyze"
  /\ log' = Append(log, Event("decision", outcome))
  /\ IF outcome = "ok" THEN Built(types) ELSE Built(<<DefaultLabel>>)
  /\ UNCHANGED <<store, now, config, isProcessing, atMessages, posts, dayPosts,
                 visible, cleared, ledgerAtStart, pre, faults, crashes, passes,
                 apiHistory, dropped>>

\* analyzeMultipleImagesWithTypes answers (lines 869-897)
Analyze(outcome, types) ==
  /\ pc = "analyze"
  /\ log' = Append(log, Event("decision", outcome))
  /\ IF outcome = "ok" THEN Built(types) ELSE EndPass /\ UNCHANGED loc
  /\ UNCHANGED <<store, now, config, isProcessing, atMessages, posts, dayPosts,
                 visible, cleared, ledgerAtStart, pre, faults, crashes, passes,
                 apiHistory, dropped>>

\* the record the pass appends
RecordOf(l) == CheckInRecord(l.dynamicId, l.timestamp, l.cloudTypes, l.images)

\* recordCheckIn: get and put of user:<id>. A failed put throws to line 934,
\* a failed get is taken for a first check-in.
AppendStats(outcome) ==
  /\ pc = "append"
  /\ Fault(outcome # "ok")
  /\ IF outcome = "putFault"
     THEN /\ pc' = "publish"
          /\ log' = Append(log, Event("stats", "fault"))
          /\ UNCHANGED user
     ELSE /\ pc' = "mirror"
          /\ user' = Put(user, loc.authorId,
                         recordCheckIn(loc.authorId, UserNameOf(loc), RecordOf(loc),
                                       outcome = "getFault"))
          /\ log' = Append(log, Event("stats", "ok"))
  /\ UNCHANGED <<processed_at, daily_comment, record, now, config, isProcessing,
                 atMessages, idx, loc, posts, dayPosts, visible, cleared,
                 ledgerAtStart, pre, crashes, passes, apiHistory, dropped>>

\* recordCheckIn: put of record:<id>:<timestamp>, then getUserStats (line 932)
MirrorRecord(outcome) ==
  /\ pc = "mirror"
  /\ Fault(outcome # "ok")
  /\ IF outcome = "putFault"
     THEN /\ pc' = "publish"
          /\ UNCHANGED <<record, loc>>
     ELSE /\ record' = Put(record, <<loc.authorId, loc.timestamp>>, RecordOf(loc))
          /\ loc' = [loc EXCEPT !.recordSaved = TRUE, !.userStats = (outcome = "ok")]
          /\ pc' = IF outcome = "ok" /\ config.enableCheckInImage
                   THEN "render" ELSE "publish"
  /\ UNCHANGED <<processed_at, daily_comment, user, now, config, isProcessing,
                 atMessages, idx, log, posts, dayPosts, visible, cleared,
                 ledgerAtStart, pre, crashes, passes, apiHistory, dropped>>

Render_Aborts(outcome) ==
  /\ pc = "render"
  /\ loc' = [loc EXCEPT !.imageInfo = (outcome = "ok")]
  /\ IF outcome = "ok" THEN pc' = "publish" /\ idx' = idx ELSE EndPass
  /\ log' = Append(log, Event("renderer", IF outcome = "ok" THEN "ok" ELSE "fail"))
  /\ UNCHANGED <<store, now, config, isProcessing, atMessages, posts,
                 dayPosts, visible, cleared, ledgerAtStart, pre, faults, crashes,
                 passes, apiHistory, dropped>>

\* generateCheckInImage and uploadImageToBiliBili answer (lines 939-966)
Render(outcome) ==
  /\ pc = "render"
  /\ loc' = [loc EXCEPT !.imageInfo = (outcome = "ok")]
  /\ pc' = "publish"
  /\ log' = Append(log, Event("renderer", IF outcome = "ok" THEN "ok" ELSE "fail"))
  /\ UNCHANGED <<store, now, config, isProcessing, atMessages, idx, posts,
                 dayPosts, visible, cleared, ledgerAtStart, pre, faults, crashes,
                 passes, apiHistory, dropped>>

\* lines 1017 and 1037: the failed publish is compensated
needsRollback_Never(l) == FALSE

needsRollback(l) == l.recordSaved /\ l.authorId # NoAuthor

\* the Publisher answers (lines 993-1052): code 0, another code, or an error
Publish(outcome) ==
  /\ pc = "publish"
  /\ log' = Append(log, Event("publisher", IF outcome = "ok" THEN "ok" ELSE "fail"))
  /\ IF outcome = "ok"
     THEN /\ posts' = [posts EXCEPT ![loc.id] = @ + 1]
          /\ IF loc.authorId # NoAuthor
             THEN /\ dayPosts' = [dayPosts EXCEPT ![<<loc.authorId, DateKey(now)>>] = @ + 1]
                  /\ visible' = visible \cup
                       {<<loc.authorId, loc.dynamicId, loc.timestamp>>}
                  /\ pc' = "mark"
             ELSE /\ pc' = "record"
                  /\ UNCHANGED <<dayPosts, visible>>
          /\ loc' = [loc EXCEPT !.dateKey = DateKey(now), !.at = now]
          /\ idx' = idx
     ELSE /\ IF needsRollback(loc) THEN pc' = "rollback" /\ idx' = idx ELSE EndPass
          /\ UNCHANGED <<posts, dayPosts, visible, loc>>
  /\ UNCHANGED <<store, now, config, isProcessing, atMessages, cleared,
                 ledgerAtStart, pre, faults, crashes, passes, apiHistory, dropped>>

Mark_RollsBack(fault) ==
  /\ pc = "mark"
  /\ Fault(fault)
  /\ daily_comment' = IF fault THEN daily_comment
                      ELSE recordDailyComment(loc.authorId, loc.dateKey)
  /\ log' = Append(log, Event("mark", IF fault THEN "fault" ELSE "ok"))
  /\ pc' = IF fault THEN "rollback" ELSE "record"
  /\ loc' = [loc EXCEPT !.at = now]
  /\ UNCHANGED <<processed_at, user, record, now, config, isProcessing,
                 atMessages, idx, posts, dayPosts, visible, cleared,
                 ledgerAtStart, pre, crashes, passes, apiHistory, dropped>>

\* recordDailyComment answers (lines 999-1007): a failure is only logged
Mark(fault) ==
  /\ pc = "mark"
  /\ Fault(fault)
  /\ daily_comment' = IF fault THEN daily_comment
                      ELSE recordDailyComment(loc.authorId, loc.dateKey)
  /\ log' = Append(log, Event("mark", IF fault THEN "fault" ELSE "ok"))
  /\ pc' = "record"
  /\ loc' = [loc EXCEPT !.at = now]
  /\ UNCHANGED <<processed_at, user, record, now, config, isProcessing,
                 atMessages, idx, posts, dayPosts, visible, cleared,
                 ledgerAtStart, pre, crashes, passes, apiHistory, dropped>>

\* mutant: a store fault of the rollback ends the cycle
Rollback_ThrowsOut(outcome) ==
  /\ pc = "rollback"
  /\ Fault(outcome # "ok")
  /\ IF canRollback(loc.authorId, outcome = "getFault")
     THEN LET s == user[loc.authorId]
              lastRecord == s.checkInRecords[Len(s.checkInRecords)]
          IN /\ record' = IF outcome = "delFault" THEN record
                          ELSE Del(record, <<loc.authorId, lastRecord.timestamp>>)
             /\ user' = IF outcome = "putFault" THEN user
                        ELSE Put(user, loc.authorId, rollbackLastCheckIn(s))
             /\ log' = Append(log, Event("rollback",
                                IF outcome = "putFault" THEN "false" ELSE "true"))
     ELSE /\ log' = Append(log, Event("rollback", "false"))
          /\ UNCHANGED <<user, record>>
  /\ IF outcome = "ok" THEN EndPass ELSE EndPass_AbortsCycle
  /\ UNCHANGED <<processed_at, daily_comment, now, config, isProcessing,
                 atMessages, loc, posts, dayPosts, visible, cleared,
                 ledgerAtStart, pre, crashes, passes, apiHistory, dropped>>

\* rollbackLastCheckIn answers: get of user:<id>, del of the mirror (a failure
\* is only logged), put of user:<id> (a failure makes the answer false)
Rollback(outcome) ==
  /\ pc = "rollback"
  /\ Fault(outcome # "ok")
  /\ IF canRollback(loc.authorId, outcome = "getFault")
     THEN LET s == user[loc.authorId]
              lastRecord == s.checkInRecords[Len(s.checkInRecords)]
          IN /\ record' = IF outcome = "delFault" THEN record
                          ELSE Del(record, <<loc.authorId, lastRecord.timestamp>>)
             /\ user' = IF outcome = "putFault" THEN user
                        ELSE Put(user, loc.authorId, rollbackLastCheckIn(s))
             /\ log' = Append(log, Event("rollback",
                                IF outcome = "putFault" THEN "false" ELSE "true"))
     ELSE /\ log' = Append(log, Event("rollback", "false"))
          /\ UNCHANGED <<user, record>>
  /\ EndPass
  /\ UNCHANGED <<processed_at, daily_comment, now, config, isProcessing,
                 atMessages, loc, posts, dayPosts, visible, cleared,
                 ledgerAtStart, pre, crashes, passes, apiHistory, dropped>>

\* mutant: the ledger record is written although the put failed
RecordProcessed_WritesAnyway(fault) ==
  /\ pc = "record"
  /\ Fault(fault)
  /\ processed_at' =
       recordProcessedAtMessage(ProcessedAtMessage(loc.id, loc.dynamicId, loc.at))
  /\ log' = Append(log, Event("ledger", IF fault THEN "fault" ELSE "ok"))
  /\ EndPass
  /\ UNCHANGED <<daily_comment, user, record, now, config, isProcessing,
                 atMessages, loc, posts, dayPosts, visible, cleared,
                 ledgerAtStart, pre, crashes, passes, apiHistory, dropped>>

\* recordProcessedAtMessage answers; a failure is caught at line 780
RecordProcessed(fault) ==
  /\ pc = "record"
  /\ Fault(fault)
  /\ processed_at' =
       IF fault THEN processed_at
       ELSE recordProcessedAtMessage(ProcessedAtMessage(loc.id, loc.dynamicId, loc.at))
  /\ log' = Append(log, Event("ledger", IF fault THEN "fault" ELSE "ok"))
  /\ EndPass
  /\ UNCHANGED <<daily_comment, user, record, now, config, isProcessing,
                 atMessages, loc, posts, dayPosts, visible, cleared,
                 ledgerAtStart, pre, crashes, passes, apiHistory, dropped>>

\* the process dies while a cycle is in flight and is started again: the
\* memory is lost, the store stays
Crash ==
  /\ pc # "idle"
  /\ faults + crashes < MaxFaults
  /\ crashes' = crashes + 1
  /\ isProcessing' = FALSE
  /\ pc' = "idle"
  /\ atMessages' = <<>>
  /\ idx' = 0
  /\ loc' = NoLoc
  /\ log' = <<>>
  /\ pre' = EmptyMap
  /\ ledgerAtStart' = {}
  /\ UNCHANGED <<store, now, config, posts, dayPosts, visible, cleared,
                 faults, passes, apiHistory, dropped>>

\* the operator clears a ledger record (--clear-message) while no cycle runs
ClearProcessed(id) ==
  /\ pc = "idle"
  /\ id \in DOMAIN processed_at
  /\ processed_at' = Del(processed_at, id)
  /\ cleared' = cleared \cup {id}
  /\ UNCHANGED <<daily_comment, user, record, now, memory, log, posts, dayPosts,
                 visible, ledgerAtStart, pre, faults, crashes, passes, apiHistory, dropped>>

\* ------------------------------------------------------------------------
\* Specifications of the workflow
\* ------------------------------------------------------------------------
Init ==
  /\ InitStoreEmpty
  /\ now = 0
  /\ config \in Configs
  /\ InitMemory
  /\ InitHistory
  /\ InitApiHistory

\* every outcome of the collaborators and of the store, and crashes
Next ==
  \/ AdvanceClock
  \/ StartCycle
  \/ \E items \in Feeds : FetchFeed(items)
  \/ FeedNothing
  \/ \E fault \in BOOLEAN, uri \in Uris : CheckProcessed(fault, uri)
  \/ CycleDone
  \/ \E outcome \in {"ok", "none", "error"}, d \in Details(now) : DetailOpus(outcome, d)
  \/ \E outcome \in {"ok", "none", "error"}, d \in Details(now) : DetailGeneral(outcome, d)
  \/ \E fault \in BOOLEAN : Gate(fault)
  \/ \E outcome \in {"error", "top", "sub", "none"} : Comments(outcome)
  \/ \E outcome \in {"ok", "fail"}, types \in AnalysisResults : Analyze(outcome, types)
  \/ \E outcome \in {"ok", "getFault", "putFault"} : AppendStats(outcome)
  \/ \E outcome \in {"ok", "putFault", "statsFault"} : MirrorRecord(outcome)
  \/ \E outcome \in {"ok", "null", "error"} : Render(outcome)
  \/ \E outcome \in {"ok", "rejected", "error"} : Publish(outcome)
  \/ \E fault \in BOOLEAN : Mark(fault)
  \/ \E outcome \in {"ok", "getFault", "delFault", "putFault"} : Rollback(outcome)
  \/ \E fault \in BOOLEAN : RecordProcessed(fault)
  \/ Crash
  \/ \E id \in MsgIds : ClearProcessed(id)

Spec == Init /\ [][Next]_vars

\* every outcome of the collaborators; the store operations complete and the
\* process does not crash
NextNormal ==
  \/ AdvanceClock
  \/ StartCycle
  \/ \E items \in Feeds : FetchFeed(items)
  \/ FeedNothing
  \/ \E uri \in Uris : CheckProcessed(FALSE, uri)
  \/ CycleDone
  \/ \E outcome \in {"ok", "none", "error"}, d \in Details(now) : DetailOpus(outcome, d)
  \/ \E outcome \in {"ok", "none", "error"}, d \in Details(now) : DetailGeneral(outcome, d)
  \/ Gate(FALSE)
  \/ \E outcome \in {"error", "top", "sub", "none"} : Comments(outcome)
  \/ \E outcome \in {"ok", "fail"}, types \in AnalysisResults : Analyze(outcome, types)
  \/ AppendStats("ok")
  \/ MirrorRecord("ok")
  \/ \E outcome \in {"ok", "null", "error"} : Render(outcome)
  \/ \E outcome \in {"ok", "rejected", "error"} : Publish(outcome)
  \/ Mark(FALSE)
  \/ Rollback("ok")
  \/ RecordProcessed(FALSE)
  \/ \E id \in MsgIds : ClearProcessed(id)

SpecNormal == Init /\ [][NextNormal]_vars

\* ------------------------------------------------------------------------
\* Properties of the workflow
\* ------------------------------------------------------------------------
\* a pass of processAtMessage has returned and the next notification is not
\* yet looked at; loc and log still describe the pass
PassEnded == pc = "check" /\ loc.id # 0

\* the pass made the call ev and got the answer res
Has(ev, res) == \E i \in 1..Len(log) : log[i] = <<loc.id, ev, res>>

\* the pass made the call ev
Made(ev) == \E i \in 1..Len(log) : log[i][1] = loc.id /\ log[i][2] = ev

\* totalCheckIns of the user in the statistics map m, 0 without stats
TotalOf(m, u) == IF u \in DOMAIN m THEN m[u].totalCheckIns ELSE 0

\* C1: every notification id is answered by at most one successful publish,
\* over all cycles, store faults and crashes, as long as the operator has not
\* cleared its ledger record.
C1_AtMostOnePost == \A id \in MsgIds : id \notin cleared => posts[id] <= 1

\* C2: whenever no pass is in flight (and no pass was cut short by a crash),
\* every record retained in the statistics of a user belongs to an action
\* whose publish succeeded.
C2_StatsOnlyPublished ==
  (crashes = 0 /\ pc \in {"idle", "feed", "check"}) =>
    \A u \in DOMAIN user :
      \A i \in 1..Len(user[u].checkInRecords) :
        <<u, user[u].checkInRecords[i].dynamicId,
             user[u].checkInRecords[i].timestamp>> \in visible

\* C3: a notification that is in the ledger when the cycle starts is only
\* skipped in that cycle: no pass is started for it, so no collaborator is
\* called for it and nothing is written to the store on its behalf.
C3_ProcessedSkipped ==
  \A n \in ledgerAtStart :
    /\ loc.id # n
    /\ \A i \in 1..Len(log) : log[i][1] = n => log[i][2] = "skip"

C3_Witness ==
  /\ pc = "check"
  /\ \E n \in ledgerAtStart : log = <<<<n, "skip", "">>>> /\ posts[n] = 1

\* the pass handled fresh content with an attachment of a known author who
\* had no mark for the day and no earlier reply, and reached the Publisher
ReachedPublisher(res) ==
  /\ PassEnded
  /\ Has("age", "fresh")
  /\ Has("images", "some")
  /\ Has("gate", "no")
  /\ Has("replies", "none")
  /\ Has("decision", "ok") \/ ~config.enableCloudAnalysis
  /\ Has("publisher", res)

\* C5: when the publish succeeds, the pass ends with the notification in the
\* ledger, the author's totalCheckIns one larger than before the pass, and
\* the author's mark for the day of the publish set.
C5_SuccessfulPass ==
  ReachedPublisher("ok") =>
    /\ isAtMessageProcessed(loc.id, FALSE)
    /\ TotalOf(user, loc.authorId) = TotalOf(pre, loc.authorId) + 1
    /\ hasUserCommentedToday(loc.authorId, loc.dateKey, FALSE)

C5_Witness ==
  /\ ReachedPublisher("ok")
  /\ isAtMessageProcessed(loc.id, FALSE)
  /\ TotalOf(user, loc.authorId) = 2
  /\ hasUserCommentedToday(loc.authorId, DateKey(now), FALSE)

\* C6: when the publish fails or raises, the pass ends with the notification
\* not in the ledger, the author's totalCheckIns as before the pass, and no
\* mark for the author on the day of the pass.
C6_FailedPublish ==
  ReachedPublisher("fail") =>
    /\ ~isAtMessageProcessed(loc.id, FALSE)
    /\ TotalOf(user, loc.authorId) = TotalOf(pre, loc.authorId)
    /\ ~hasUserCommentedToday(loc.authorId, loc.dateKey, FALSE)
    /\ ~hasUserCommentedToday(loc.authorId, DateKey(now), FALSE)

C6_Witness ==
  /\ ReachedPublisher("fail")
  /\ Has("rollback", "true")
  /\ ~isAtMessageProcessed(loc.id, FALSE)
  /\ loc.authorId \in DOMAIN pre
  /\ user[loc.authorId] = pre[loc.authorId]
  /\ pre[loc.authorId].totalCheckIns = 1

\* C7: as long as the mark of every successful publish has been written, no
\* user gets more than one successful publish on one calendar day.
MarksWritten ==
  \A k \in DOMAIN dayPosts :
    dayPosts[k] >= 1 =>
      \/ k \in daily_comment
      \/ pc = "mark" /\ loc.authorId = k[1] /\ loc.dateKey = k[2]

C7_OncePerDay == MarksWritten => \A k \in DOMAIN dayPosts : dayPosts[k] <= 1

C11_StaleContent ==
  (PassEnded /\ Has("age", "stale")) =>
    /\ isAtMessageProcessed(loc.id, FALSE)
    /\ user = pre
    /\ ~Made("stats")
    /\ ~Made("publisher")
    /\ ~Made("gate")
    /\ ~Made("replies")
    /\ ~Made("mark")

C11_Witness ==
  /\ PassEnded
  /\ Has("age", "stale")
  /\ Has("images", "some")
  /\ Has("ledger", "ok")
  /\ processed_at[loc.id].dynamicId = "9"
  /\ posts[loc.id] = 0

\* ------------------------------------------------------------------------
\* Calls of checkAndComment while a cycle is in flight
\* ------------------------------------------------------------------------
skipsTick_Never(flag) == FALSE

\* line 487: the single-flight guard
skipsTick(flag) == flag

\* checkAndComment is called while an earlier call has not returned. main()
\* itself schedules the next call only after the await of the previous one
\* (lines 1511-1522); this is the call of any other timer or caller.
TickWhileBusy ==
  /\ pc # "idle"
  /\ dropped < MaxDropped
  /\ IF skipsTick(isProcessing)
     THEN /\ dropped' = dropped + 1
          /\ UNCHANGED <<store, now, memory, history, apiHistory>>
     ELSE /\ isProcessing' = TRUE
          /\ pc' = "feed"
          /\ log' = <<>>
          /\ ledgerAtStart' = DOMAIN processed_at
          /\ UNCHANGED <<store, now, config, atMessages, idx, loc, posts, dayPosts,
                         visible, cleared, pre, faults, crashes, passes, apiHistory,
                         dropped>>

NextTicks == NextNormal \/ TickWhileBusy

SpecTicks == Init /\ [][NextTicks]_vars

\* C12: a cycle starts only when no cycle is in flight, and a call that
\* finds a cycle in flight changes nothing: no feed request, no store
\* write, the busy flag as it was, and no trace of the call left in the
\* memory of the process (nothing is queued).
C12_SingleFlight ==
  [][ /\ (pc' = "feed" /\ pc # "feed") => (pc = "idle" /\ ~isProcessing)
      /\ (dropped' # dropped) => UNCHANGED <<store, now, memory>> ]_vars

C12_Witness ==
  /\ dropped = 1
  /\ pc = "idle"
  /\ ~isProcessing
  /\ \E id \in MsgIds : posts[id] = 1 /\ isAtMessageProcessed(id, FALSE)

\* a pass of processAtMessage is in flight
InPass(p) == p \notin {"idle", "feed", "check"}

\* C13: whatever a step of a pass answers (a collaborator error, a store
\* fault, an exception), the cycle is not given up: the pass either goes on
\* or returns to the loop, which then takes the next notification of the
\* feed, and the cycle ends only behind the last notification. (A crash of
\* the process is no step of the cycle.)
C13_CycleGoesOn ==
  [][ crashes' = crashes =>
      /\ InPass(pc) =>
           /\ atMessages' = atMessages
           /\ \/ InPass(pc') /\ idx' = idx
              \/ pc' = "check" /\ idx' = idx + 1
      /\ (pc = "check" /\ idx <= Len(atMessages)) =>
           /\ atMessages' = atMessages
           /\ \/ pc' = "check" /\ idx' = idx + 1
              \/ pc' = "check" /\ idx' = idx /\ now' # now
              \/ idx' = idx /\ loc'.id = atMessages[idx] /\ pc' \notin {"idle", "feed"}
      /\ (pc = "check" /\ pc' = "idle") => idx > Len(atMessages) ]_vars

C13_Witness ==
  /\ pc = "check"
  /\ Len(atMessages) = 2
  /\ idx = 3
  /\ faults = 1
  /\ passes = 2
  /\ ~isAtMessageProcessed(atMessages[1], FALSE)
  /\ posts[atMessages[1]] = 0
  /\ loc.id = atMessages[2]
  /\ Has("publisher", "ok")
  /\ Has("ledger", "ok")

\* C14: a store fault is surfaced: the step in which a ledger, rate limiter
\* or statistics operation fails does not go on with the pass as if the
\* operation had answered (the fault reaches the try scope of the
\* notification), except for the daily mark after a successful publish.
C14_FaultsSurface ==
  [][ (faults' # faults /\ pc # "mark") => ~InPass(pc') ]_vars

\* C15: when the publish succeeded and the write of the daily mark failed,
\* the pass ends without a rollback, the appended record is still the last
\* record of the author's statistics, and the ledger record of the
\* notification is written (unless that write fails as well).
C15_MarkFailureStands ==
  (PassEnded /\ Has("publisher", "ok") /\ Has("mark", "fault")) =>
    /\ ~Made("rollback")
    /\ Has("stats", "ok") =>
         /\ loc.authorId \in DOMAIN user
         /\ Len(user[loc.authorId].checkInRecords) >= 1
         /\ user[loc.authorId].checkInRecords[Len(user[loc.authorId].checkInRecords)]
              = RecordOf(loc)
    /\ Made("ledger")
    /\ Has("ledger", "ok") => isAtMessageProcessed(loc.id, FALSE)

C15_Witness ==
  /\ PassEnded
  /\ Has("publisher", "ok")
  /\ Has("mark", "fault")
  /\ Has("stats", "ok")
  /\ TotalOf(user, loc.authorId) = 1
  /\ isAtMessageProcessed(loc.id, FALSE)
  /\ ~hasUserCommentedToday(loc.authorId, loc.dateKey, FALSE)

\* C16: when the generation or the upload of the image fails, the Publisher
\* is still called, without a picture; when that publish succeeds the pass
\* ends as a successful pass without media does: no rollback, the appended
\* record is kept, the mark of the day is written and the notification is in
\* the ledger.
C16_MediaFailureHarmless ==
  (PassEnded /\ Has("renderer", "fail")) =>
    /\ Made("publisher")
    /\ ~loc.imageInfo
    /\ Has("publisher", "ok") =>
         /\ ~Made("rollback")
         /\ TotalOf(user, loc.authorId) = TotalOf(pre, loc.authorId) + 1
         /\ user[loc.authorId].checkInRecords[Len(user[loc.authorId].checkInRecords)]
              = RecordOf(loc)
         /\ hasUserCommentedToday(loc.authorId, loc.dateKey, FALSE)
         /\ isAtMessageProcessed(loc.id, FALSE)

C16_Witness ==
  /\ PassEnded
  /\ Has("renderer", "fail")
  /\ Has("publisher", "ok")
  /\ posts[loc.id] = 1
  /\ ~loc.imageInfo
  /\ TotalOf(user, loc.authorId) = 1
  /\ hasUserCommentedToday(loc.authorId, loc.dateKey, FALSE)
  /\ isAtMessageProcessed(loc.id, FALSE)

\* C17: the workflow writes the ledger record of a notification only in the
\* last step of its pass and only when the ledger holds no record of it; a
\* record that exists is never changed; a record disappears only when the
\* operator clears it.
C17_LedgerWriteOnce ==
  [][ \A id \in MsgIds :
        /\ (id \in DOMAIN processed_at /\ id \notin DOMAIN processed_at') =>
             (pc = "idle" /\ id \in cleared')
        /\ (id \in DOMAIN processed_at /\ id \in DOMAIN processed_at') =>
             processed_at'[id] = processed_at[id]
        /\ (id \notin DOMAIN processed_at /\ id \in DOMAIN processed_at') =>
             (pc = "record" /\ loc.id = id /\ pc' = "check")
        /\ (pc = "record" /\ loc.id = id /\ pc' = "check" /\ faults' = faults) =>
             id \notin DOMAIN processed_at ]_vars

\* ------------------------------------------------------------------------
\* Store-level specification: direct calls of the ledger methods
\* ------------------------------------------------------------------------
\* deleteProcessedAtMessage: db.del and the answer true; false on an error
deleteProcessedAtMessage(atMessageId, fault) ==
  [db |-> IF fault THEN processed_at ELSE Del(processed_at, atMessageId),
   ret |-> ~fault]

\* Array.sort((a, b) => b - a) of a set of ids
RECURSIVE SortDescending(_)
SortDescending(S) ==
  IF S = {} THEN <<>>
  ELSE LET top == CHOOSE x \in S : \A y \in S : y <= x
       IN <<top>> \o SortDescending(S \ {top})

\* listProcessedAtMessages: the ids of all processed_at keys, sorted
\* descending; the empty list on an error
listProcessedAtMessages(fault) ==
  IF fault THEN <<>> ELSE SortDescending(DOMAIN processed_at)

\* a call of the ledger: its number, the clock, its answer, the ledger before it
LedgerCall(op, id, ret) ==
  [op |-> op, u |-> id, ret |-> ret, n |-> nCalls + 1, t |-> now, pre |-> processed_at]

\* cloudDB.recordProcessedAtMessage(message) with processedAt: Date.now()
ApiRecordProcessedAtMessage(id) ==
  /\ Called(LedgerCall("record", id, TRUE), MaxLedgerCalls)
  /\ processed_at' = recordProcessedAtMessage(ProcessedAtMessage(id, "9", now))
  /\ UNCHANGED <<daily_comment, user, record, now, memory, history, appended,
                 catSum, rolledBack, marked, dropped>>

\* cloudDB.deleteProcessedAtMessage(atMessageId), db.del succeeds
ApiDeleteProcessedAtMessage(id) ==
  /\ Called(LedgerCall("delete", id, deleteProcessedAtMessage(id, FALSE).ret),
            MaxLedgerCalls)
  /\ processed_at' = deleteProcessedAtMessage(id, FALSE).db
  /\ UNCHANGED <<daily_comment, user, record, now, memory, history, appended,
                 catSum, rolledBack, marked, dropped>>

\* cloudDB.listProcessedAtMessages(), the iterator succeeds
ApiListProcessedAtMessages ==
  /\ Called(LedgerCall("list", 0, listProcessedAtMessages(FALSE)), MaxLedgerCalls)
  /\ UNCHANGED <<store, now, memory, history, appended, catSum, rolledBack,
                 marked, dropped>>

InitLedger ==
  /\ InitStoreEmpty
  /\ now = 0
  /\ config = DefaultConfig
  /\ InitMemory
  /\ InitHistory
  /\ InitApiHistory

\* calls of the ledger
NextLedger ==
  \/ AdvanceClock
  \/ \E id \in MsgIds : ApiRecordProcessedAtMessage(id)
  \/ \E id \in MsgIds : ApiDeleteProcessedAtMessage(id)
  \/ ApiListProcessedAtMessages

SpecLedger == InitLedger /\ [][NextLedger]_vars

\* the last call, when it is a call of op
LastCallIs(op) == calls # <<>> /\ calls[Len(calls)].op = op
LastCall == calls[Len(calls)]

\* C18: deleteProcessedAtMessage answers true exactly when the ledger held a
\* record of the id before the call, and false when it held none; after the
\* call the id is not processed and every other record is as before.
C18_DeleteAnswers ==
  LastCallIs("delete") =>
    /\ LastCall.ret = (LastCall.u \in DOMAIN LastCall.pre)
    /\ ~isAtMessageProcessed(LastCall.u, FALSE)
    /\ processed_at = Del(LastCall.pre, LastCall.u)

\* C20: listProcessedAtMessages answers the ids of the ledger, each once,
\* and of two listed ids the one whose record has the larger processedAt
\* comes first.
C20_ListByProcessedAt ==
  LastCallIs("list") =>
    /\ {LastCall.ret[i] : i \in 1..Len(LastCall.ret)} = DOMAIN LastCall.pre
    /\ Len(LastCall.ret) = Cardinality(DOMAIN LastCall.pre)
    /\ \A i, j \in 1..Len(LastCall.ret) :
         i < j => LastCall.pre[LastCall.ret[i]].processedAt
                    >= LastCall.pre[LastCall.ret[j]].processedAt

\* ------------------------------------------------------------------------
\* Store-level specification: getRecentCheckIns beside the statistics calls
\* ------------------------------------------------------------------------
\* Array.slice(-limit): the last limit elements, the whole array for -0
SliceLast(s, limit) ==
  IF limit = 0 \/ limit >= Len(s) THEN s
  ELSE SubSeq(s, Len(s) - limit + 1, Len(s))

\* Array.reverse
Reverse(s) == [i \in 1..Len(s) |-> s[Len(s) + 1 - i]]

\* getRecentCheckIns: [] without stats or on an error
getRecentCheckIns(userId, limit, fault) ==
  IF fault \/ userId \notin DOMAIN user THEN <<>>
  ELSE Reverse(SliceLast(user[userId].checkInRecords, limit))

\* a call of getRecentCheckIns: its limit, its answer, the stats before it
RecentCall(u, limit, ret) ==
  [op |-> "recent", u |-> u, ret |-> ret, n |-> nCalls + 1, t |-> now,
   pre |-> StatsOf(u), limit |-> limit]

\* cloudDB.getRecentCheckIns(userId, limit), the get succeeds
ApiGetRecentCheckIns(u, limit) ==
  /\ Called(RecentCall(u, limit, getRecentCheckIns(u, limit, FALSE)), MaxStatsCalls)
  /\ UNCHANGED <<store, now, memory, history, appended, catSum, rolledBack,
                 marked, dropped>>

NextRecent ==
  \/ NextStats
  \/ \E u \in Authors, limit \in 0..MaxLimit : ApiGetRecentCheckIns(u, limit)

SpecRecent == InitStore /\ [][NextRecent]_vars

\* C19: getRecentCheckIns answers at most limit records for every limit
\* from 0 on: the last records of the user, the latest first, and the empty
\* sequence for a user without statistics.
C19_RecentAtMostLimit ==
  LastCallIs("recent") =>
    LET got == LastCall.ret
        limit == LastCall.limit
    IN /\ Len(got) <= limit
       /\ LastCall.pre = {} => got = <<>>
       /\ \A s \in LastCall.pre :
            /\ Len(got) = IF Len(s.checkInRecords) < limit
                          THEN Len(s.checkInRecords) ELSE limit
            /\ \A i \in 1..Len(got) :
                 got[i] = s.checkInRecords[Len(s.checkInRecords) + 1 - i]

\* C21: after any sequence of recordCheckIn and rollbackLastCheckIn calls the
\* totalCheckIns of a user is the number of appends minus the number of
\* rollbacks that answered true, also beyond the 100 retained records.
C21_TotalIsAppendsMinusRollbacks ==
  \A u \in Authors : TotalOf(user, u) = appended[u] - rolledBack[u]

C21_Witness ==
  /\ appended["U1"] = MaxRecords + 2
  /\ rolledBack["U1"] = 1
  /\ TotalOf(user, "U1") = MaxRecords + 1
  /\ Len(user["U1"].checkInRecords) = MaxRecords - 1

\* ------------------------------------------------------------------------
\* Store-level specification: statistics calls on a store whose user U2 had
\* one check-in recorded and rolled back (stats present, no record left)
\* ------------------------------------------------------------------------
InitUndo ==
  /\ processed_at = [x \in {1} |-> ProcessedAtMessage(1, "9", -1)]
  /\ daily_comment = {<<"U2", DateKey(-1)>>}
  /\ user = [x \in {"U2"} |->
               rollbackLastCheckIn(
                 UpdateUserStats(NewUserStats("alice", PastRecord(1, 1)),
                                 "alice", PastRecord(1, 1)))]
  /\ record = [x \in {} |-> 0]
  /\ appended = [u \in Authors |-> IF u = "U2" THEN 1 ELSE 0]
  /\ catSum = [u \in Authors |-> 0]
  /\ now = 0
  /\ config = DefaultConfig
  /\ InitMemory
  /\ InitHistory
  /\ nCalls = 0
  /\ calls = <<>>
  /\ rolledBack = [u \in Authors |-> IF u = "U2" THEN 1 ELSE 0]
  /\ marked = {}

SpecUndo == InitUndo /\ [][NextStats]_vars

\* C22: a rollbackLastCheckIn call for a user without stats, or with stats
\* whose checkInRecords is empty, answers false and changes nothing in the
\* store: stats, record mirrors, ledger and daily marks are as before.
C22_RollbackRefuses ==
  [][ \A u \in Authors :
        ( /\ nCalls' = nCalls + 1
          /\ calls'[Len(calls')].op = "rollback"
          /\ calls'[Len(calls')].u = u
          /\ (u \notin DOMAIN user \/ user[u].checkInRecords = <<>>) )
        => (calls'[Len(calls')].ret = FALSE /\ UNCHANGED store) ]_vars

C22_Witness ==
  /\ LastCallIs("rollback")
  /\ LastCall.u = "U2"
  /\ LastCall.ret = FALSE
  /\ LastCall.pre = {user["U2"]}
  /\ user["U2"].checkInRecords = <<>>
  /\ user["U2"].totalCheckIns = 0
  /\ nCalls = 2

\* C23: the ledger is written by a pass only in its last step, behind every
\* collaborator call of the pass; no earlier step of a pass and no crash
\* changes the ledger, so a notification whose pass is cut by a crash is as
\* unprocessed after the restart as it was when the pass started.
C23_LedgerWriteLast ==
  [][ /\ (InPass(pc) /\ pc # "record") => processed_at' = processed_at
      /\ (pc = "record" /\ processed_at' # processed_at) =>
           (pc' = "check" /\ idx' = idx + 1 /\ crashes' = crashes)
      /\ (~InPass(pc) /\ processed_at' # processed_at) =>
           (pc = "idle" /\ \E id \in cleared' : processed_at' = Del(processed_at, id))
      /\ crashes' # crashes => processed_at' = processed_at ]_vars

\* the pass of a notification was cut by a crash after its publish, and the
\* notification is taken up again after the restart
C23_Witness ==
  /\ crashes = 1
  /\ InPass(pc)
  /\ posts[loc.id] = 1
  /\ ~isAtMessageProcessed(loc.id, FALSE)
  /\ cleared = {}
  /\ passes = 2

\* the pass made the call first before the call second
MadeBefore(first, second) ==
  \E i, j \in 1..Len(log) : i < j /\ log[i][2] = first /\ log[j][2] = second

\* C24: a pass that called the Publisher for content of a known author made
\* the statistics append before that call; and a pass whose append changed
\* the author's statistics and whose publish failed called the rollback
\* before it ended.
C24_AppendThenCompensate ==
  PassEnded =>
    /\ (Made("publisher") /\ loc.authorId # NoAuthor) => MadeBefore("stats", "publisher")
    /\ (Has("stats", "ok") /\ Has("publisher", "fail")) => MadeBefore("publisher", "rollback")

\* ------------------------------------------------------------------------
\* The poll loop over unboundedly many cycles: notification 1 stays in the
\* feed, cycles terminate (no crash), the operator clears nothing
\* ------------------------------------------------------------------------
\* feeds that list notification 1
LiveFeeds == {<<1>>}

\* the for loop takes the next notification, in any number of passes
CheckProcessedAgain(fault, uri) ==
  /\ pc = "check"
  /\ idx <= Len(atMessages)
  /\ Fault(fault)
  /\ LET id == atMessages[idx] IN
     IF isAtMessageProcessed(id, fault)
     THEN /\ idx' = idx + 1
          /\ loc' = NoLoc
          /\ log' = <<<<id, "skip", "">>>>
          /\ UNCHANGED <<pc, pre>>
     ELSE /\ loc' = [NoLoc EXCEPT !.id = id, !.uri = uri,
                                  !.dynamicId = resolveDynamicId(uri), !.at = now]
          /\ pc' = AfterResolve(uri)
          /\ pre' = user
          /\ log' = <<<<id, "start", "">>>>
          /\ idx' = idx
  /\ UNCHANGED <<store, now, config, isProcessing, atMessages, posts, dayPosts,
                 visible, cleared, ledgerAtStart, crashes, passes, apiHistory, dropped>>

\* the collaborators answer well
FeedOk == \E items \in LiveFeeds : FetchFeed(items)
DetailOk == \E d \in Details(now) : DetailGeneral("ok", d)
CommentsOk == \E outcome \in {"top", "sub", "none"} : Comments(outcome)
AnalyzeOk == \E types \in AnalysisResults : Analyze("ok", types)
PublishOk == Publish("ok")

NextLive ==
  \/ AdvanceClock
  \/ StartCycle
  \/ FeedOk
  \/ FeedNothing
  \/ \E fault \in BOOLEAN, uri \in Uris : CheckProcessedAgain(fault, uri)
  \/ CycleDone
  \/ \E outcome \in {"ok", "none", "error"}, d \in Details(now) : DetailOpus(outcome, d)
  \/ \E outcome \in {"ok", "none", "error"}, d \in Details(now) : DetailGeneral(outcome, d)
  \/ \E fault \in BOOLEAN : Gate(fault)
  \/ \E outcome \in {"error", "top", "sub", "none"} : Comments(outcome)
  \/ \E outcome \in {"ok", "fail"}, types \in AnalysisResults : Analyze(outcome, types)
  \/ \E outcome \in {"ok", "getFault", "putFault"} : AppendStats(outcome)
  \/ \E outcome \in {"ok", "putFault", "statsFault"} : MirrorRecord(outcome)
  \/ \E outcome \in {"ok", "null", "error"} : Render(outcome)
  \/ \E outcome \in {"ok", "rejected", "error"} : Publish(outcome)
  \/ \E fault \in BOOLEAN : Mark(fault)
  \/ \E outcome \in {"ok", "getFault", "delFault", "putFault"} : Rollback(outcome)
  \/ \E fault \in BOOLEAN : RecordProcessed(fault)

\* every step of a cycle returns and the timer of main fires (weak fairness
\* of the loop); a collaborator that is called again and again answers well
\* again and again (strong fairness of the good answers); the store fails at
\* most MaxFaults times
FairLive ==
  /\ WF_vars(NextLive)
  /\ SF_vars(FeedOk)
  /\ SF_vars(DetailOk)
  /\ SF_vars(CommentsOk)
  /\ SF_vars(AnalyzeOk)
  /\ SF_vars(PublishOk)

SpecLive == Init /\ [][NextLive]_vars /\ FairLive

\* C25: a notification that stays in the feed is taken up again in every
\* cycle as long as it is not in the ledger, and a further cycle follows each
\* cycle; so, once the collaborators and the store answer well, it is
\* eventually in the ledger.
C25_EventuallyProcessed == <>isAtMessageProcessed(1, FALSE)

\* the first pass published and failed to write the ledger record; a later
\* cycle took the notification up again and recorded it
C25_Witness ==
  /\ PassEnded
  /\ loc.id = 1
  /\ faults = 1
  /\ posts[1] = 1
  /\ Has("gate", "yes")
  /\ Has("ledger", "ok")
  /\ isAtMessageProcessed(1, FALSE)

UnresolvableUris == {"/opus/", "t.bilibili.com/", "other"}

\* C27: a pass for a notification whose uri gives no content reference ends
\* with the notification in the ledger, recorded with a sentinel target, and
\* calls neither the Content, the reply list, the analysis nor the Publisher.
C27_UnresolvableRecorded ==
  (PassEnded /\ loc.uri \in UnresolvableUris) =>
    /\ isAtMessageProcessed(loc.id, FALSE)
    /\ processed_at[loc.id].dynamicId \in Sentinels
    /\ log = << <<loc.id, "start", "">>, <<loc.id, "ledger", "ok">> >>
    /\ user = pre

C27_Witness ==
  /\ PassEnded
  /\ loc.uri = "other"
  /\ isAtMessageProcessed(loc.id, FALSE)
  /\ processed_at[loc.id].dynamicId = "invalid_uri"
  /\ ~Made("content")
  /\ posts[loc.id] = 0

\* C28: a pass in which no detail request gave an item, or in which the
\* request of the reply list raised, ends without a ledger record of the
\* notification and without statistics append, mark write or Publisher call.
C28_FetchFailureNotRecorded ==
  (PassEnded /\ ((Has("content", "fail") /\ ~Has("content", "ok")) \/ Has("replies", "error"))) =>
    /\ ~isAtMessageProcessed(loc.id, FALSE)
    /\ ~Made("ledger") /\ ~Made("stats") /\ ~Made("mark") /\ ~Made("publisher")
    /\ user = pre

\* the opus request and the general request both failed
C28_Witness ==
  /\ PassEnded
  /\ log = << <<loc.id, "start", "">>, <<loc.id, "content", "fail">>,
              <<loc.id, "content", "fail">> >>
  /\ ~isAtMessageProcessed(loc.id, FALSE)
  /\ IsOpus(loc.uri)

\* C29: a pass whose analysis failed ends without statistics append,
\* Publisher call, mark write or ledger write; the statistics are as they
\* were when the pass started and the notification is not in the ledger.
C29_AnalysisFailureStops ==
  (PassEnded /\ Has("decision", "fail")) =>
    /\ ~Made("stats") /\ ~Made("publisher") /\ ~Made("mark") /\ ~Made("ledger")
    /\ ~Made("rollback")
    /\ user = pre
    /\ ~isAtMessageProcessed(loc.id, FALSE)

\* the analysis failed for content of an author who has statistics already
C29_Witness ==
  /\ PassEnded
  /\ Has("decision", "fail")
  /\ Has("replies", "none")
  /\ loc.authorId \in DOMAIN user
  /\ TotalOf(user, loc.authorId) = 1
  /\ ~isAtMessageProcessed(loc.id, FALSE)

\* C30: when a store operation of the rollback fails after a failed publish,
\* the pass still returns to the for loop, which takes the next notification;
\* the ledger and the daily marks are left as they were and the pass has
\* written neither.
C30_RollbackFailureContained ==
  [][ (pc = "rollback" /\ faults' # faults) =>
        /\ Has("publisher", "fail")
        /\ pc' = "check" /\ idx' = idx + 1 /\ atMessages' = atMessages
        /\ isProcessing'
        /\ processed_at' = processed_at
        /\ daily_comment' = daily_comment
        /\ ~Made("mark")' /\ ~Made("ledger")' ]_vars

\* the put of the rollback failed for the first of two notifications: the
\* appended record stays, the notification is not in the ledger, the second
\* notification is next
C30_Witness ==
  /\ PassEnded
  /\ Has("publisher", "fail")
  /\ Has("rollback", "false")
  /\ faults = 1
  /\ TotalOf(user, loc.authorId) = TotalOf(pre, loc.authorId) + 1
  /\ ~isAtMessageProcessed(loc.id, FALSE)
  /\ Len(atMessages) = 2 /\ idx = 2

\* checkInRecords of the user in the statistics map m, empty without stats
RecordsOf(m, u) == IF u \in DOMAIN m THEN m[u].checkInRecords ELSE <<>>

\* the smaller of two numbers
Min(a, b) == IF a < b THEN a ELSE b

\* C31: checkInRecords never holds more than 100 records; without a rollback
\* it holds min(n, 100) records after n appends; and every append puts its
\* record last and keeps the records before it in order, dropping the oldest
\* one when the list was full.
C31_WindowOfLastRecords ==
  /\ [](\A u \in Authors :
          /\ Len(RecordsOf(user, u)) <= MaxRecords
          /\ rolledBack[u] = 0 => Len(RecordsOf(user, u)) = Min(appended[u], MaxRecords))
  /\ [][ \A u \in Authors :
           appended'[u] = appended[u] + 1 =>
             LET old == RecordsOf(user, u)
                 new == RecordsOf(user', u)
                 kept == Len(new) - 1
             IN /\ Len(new) = Min(Len(old) + 1, MaxRecords)
                /\ new[Len(new)].timestamp = now
                /\ \A i \in 1..kept : new[i] = old[Len(old) - kept + i] ]_vars

\* 102 appends: the first two records are gone, the third is the oldest
C31_Witness ==
  /\ appended["U1"] = MaxRecords + 2
  /\ rolledBack["U1"] = 0
  /\ Len(user["U1"].checkInRecords) = MaxRecords
  /\ user["U1"].checkInRecords[1] = PastRecord(3, MaxRecords + 1)
  /\ user["U1"].checkInRecords[MaxRecords].timestamp = now

\* C32: after every append lastCheckIn is the timestamp of the appended
\* record; after every rollback that answered true it is the timestamp of
\* the record that is now last, or firstCheckIn when no record is left.
C32_LastTracksHistory ==
  [][ \A u \in Authors :
        /\ appended'[u] = appended[u] + 1 =>
             /\ user'[u].lastCheckIn = now
             /\ user'[u].lastCheckIn =
                  user'[u].checkInRecords[Len(user'[u].checkInRecords)].timestamp
        /\ rolledBack'[u] = rolledBack[u] + 1 =>
             LET recs == user'[u].checkInRecords
             IN user'[u].lastCheckIn = IF recs # <<>> THEN recs[Len(recs)].timestamp
                                       ELSE user'[u].firstCheckIn ]_vars

\* the 100th record, appended at time 1, was rolled back: the last record
\* is again the one of time -1
C32_Witness ==
  /\ appended["U1"] = MaxRecords
  /\ rolledBack["U1"] = 1
  /\ LastCallIs("rollback") /\ LastCall.t = 1
  /\ \A s \in LastCall.pre : s.lastCheckIn = 1
  /\ user["U1"].lastCheckIn = -1
  /\ Len(user["U1"].checkInRecords) = MaxRecords - 1

\* C33: in every state and for every user with stats, totalCheckIns is at
\* least the number of retained records, totalImages is not negative, and
\* every label stored in cloudTypeStats has a count of at least 1.
C33_StatsInRange ==
  \A u \in DOMAIN user :
    /\ user[u].totalCheckIns >= Len(user[u].checkInRecords)
    /\ Len(user[u].checkInRecords) >= 0
    /\ user[u].totalImages >= 0
    /\ \A t \in DOMAIN user[u].cloudTypeStats : user[u].cloudTypeStats[t] >= 1

\* a record with two labels was rolled back behind a record with one: one
\* label is gone from cloudTypeStats, the other has count 1
C33_Witness ==
  /\ PassEnded
  /\ Has("rollback", "true")
  /\ loc.cloudTypes = <<"stratus", "cumulus">>
  /\ TotalOf(user, loc.authorId) = 1
  /\ DOMAIN user[loc.authorId].cloudTypeStats = {"cumulus"}
  /\ user[loc.authorId].cloudTypeStats["cumulus"] = 1

\* f[lo] + ... + f[hi], by halves
RECURSIVE SumRange(_, _, _)
SumRange(f, lo, hi) ==
  IF lo > hi THEN 0
  ELSE IF lo = hi THEN f[lo]
  ELSE LET mid == (lo + hi) \div 2
       IN SumRange(f, lo, mid) + SumRange(f, mid + 1, hi)

\* the aggregate of stats s is the one its retained records give
DerivedFromRecords(s) ==
  LET recs == s.checkInRecords
      n == Len(recs)
      labels == DOMAIN s.cloudTypeStats \cup
                UNION {{recs[i].cloudTypes[j] : j \in 1..Len(recs[i].cloudTypes)} : i \in 1..n}
      entries(l) == SumRange([i \in 1..n |-> Count(recs[i].cloudTypes, l)], 1, n)
  IN /\ s.totalCheckIns = n
     /\ s.totalImages = SumRange([i \in 1..n |-> recs[i].imageCount], 1, n)
     /\ \A l \in labels :
          IF entries(l) = 0 THEN l \notin DOMAIN s.cloudTypeStats
          ELSE l \in DOMAIN s.cloudTypeStats /\ s.cloudTypeStats[l] = entries(l)

\* C34: while a user has had at most 100 check-ins recorded, after any
\* sequence of recordCheckIn and rollbackLastCheckIn calls totalCheckIns is
\* the number of retained records, totalImages the sum of their imageCount,
\* and cloudTypeStats[label] the number of entries with that label in them.
C34_AggregateFromRecords ==
  \A u \in DOMAIN user : appended[u] <= MaxRecords => DerivedFromRecords(user[u])

\* 99 earlier records, the last one rolled back, then a record with a
\* repeated label and one image appended
C34_Witness ==
  /\ Len(calls) = 2
  /\ calls[1].op = "rollback" /\ calls[1].u = "U1" /\ calls[1].ret = TRUE
  /\ calls[2].op = "append" /\ calls[2].u = "U1"
  /\ appended["U1"] = MaxRecords
  /\ Len(user["U1"].checkInRecords) = MaxRecords - 1
  /\ user["U1"].checkInRecords[MaxRecords - 1].cloudTypes = <<"stratus", "stratus">>
  /\ user["U1"].checkInRecords[MaxRecords - 1].imageCount = 1
  /\ user["U1"].totalImages = MaxRecords - 1

\* the entries of a sequence are pairwise distinct
Distinct(s) == \A i, j \in 1..Len(s) : s[i] = s[j] => i = j

\* the count of label l in the cloudTypeStats of user u in store m
CountOf(m, u, l) ==
  IF u \in DOMAIN m /\ l \in DOMAIN m[u].cloudTypeStats THEN m[u].cloudTypeStats[l] ELSE 0

\* C35: the record a pass is about to append carries pairwise distinct labels
\* (the merged analysis result, or the one fixed label when the analysis is
\* disabled), and the append raises the count of each of its labels by
\* exactly one and leaves the other counts alone.
C35_DistinctLabels ==
  /\ [](pc = "append" =>
          /\ Distinct(loc.cloudTypes)
          /\ ~config.enableCloudAnalysis => loc.cloudTypes = <<DefaultLabel>>)
  /\ [][ (pc = "append" /\ pc' = "mirror") =>
           LET u == loc.authorId
               recs == user'[u].checkInRecords
           IN /\ recs[Len(recs)].cloudTypes = loc.cloudTypes
              /\ \A l \in Labels \cup {DefaultLabel} :
                   CountOf(user', u, l) =
                     CountOf(user, u, l) + (IF Count(loc.cloudTypes, l) > 0 THEN 1 ELSE 0) ]_vars

\* a second record with two labels was appended for an author
C35_Witness ==
  /\ pc = "mirror"
  /\ loc.cloudTypes = <<"stratus", "cumulus">>
  /\ Len(user[loc.authorId].checkInRecords) = 2
  /\ user[loc.authorId].cloudTypeStats["cumulus"] = 2
  /\ user[loc.authorId].cloudTypeStats["stratus"] = 1

\* ------------------------------------------------------------------------
\* Test mode (main.ts, testMode): the process started with --test looks at
\* the latest notification once and exits
\* ------------------------------------------------------------------------
\* the store test mode opens, as earlier runs of the poll loop can leave it:
\* notification 1 recorded or not, U1 marked for today or not, U1 with one
\* earlier check-in or none
InitTest ==
  /\ \E done \in BOOLEAN, mark \in BOOLEAN, k \in 0..1 :
       /\ processed_at = IF done THEN [x \in {1} |-> ProcessedAtMessage(1, "9", -1)]
                         ELSE [x \in {} |-> 0]
       /\ daily_comment = IF mark THEN {<<"U1", DateKey(0)>>} ELSE {}
       /\ user = IF k = 0 THEN [x \in {} |-> 0]
                 ELSE [x \in {"U1"} |->
                        PastStats(NewUserStats("alice", PastRecord(1, 1)), 1, 1, 1)]
       /\ record = IF k = 0 THEN [x \in {} |-> 0]
                   ELSE [x \in {<<"U1", -1>>} |-> PastRecord(1, 1)]
       /\ appended = [u \in Authors |-> IF u = "U1" THEN k ELSE 0]
       /\ catSum = [u \in Authors |-> IF u = "U1" THEN 2 * k ELSE 0]
  /\ now = 0
  /\ config \in Configs
  /\ InitMemory
  /\ InitHistory
  /\ InitApiHistory

\* testMode returns
TestReturn ==
  /\ pc' = "testDone"
  /\ idx' = idx

\* lines 1150-1191: the feed is requested; nothing, or a uri without a
\* numeric id, ends the run; otherwise the latest notification is taken
TestFeed(items, uri) ==
  /\ pc = "idle"
  /\ passes < MaxPasses
  /\ passes' = passes + 1
  /\ log' = <<>>
  /\ atMessages' = items
  /\ IF items = <<>> \/ resolveDynamicId(uri) \in Sentinels
     THEN TestReturn /\ loc' = NoLoc
     ELSE /\ loc' = [NoLoc EXCEPT !.id = items[1], !.uri = uri,
                                  !.dynamicId = resolveDynamicId(uri)]
          /\ pc' = IF IsOpus(uri) THEN "testDetailOpus" ELSE "testDetailGeneral"
          /\ idx' = idx
  /\ UNCHANGED <<store, now, config, isProcessing, posts, dayPosts, visible,
                 cleared, ledgerAtStart, pre, faults, crashes, apiHistory, dropped>>

\* mutant: a notification that the ledger holds ends the run
TestBuilt_ChecksLedger(types) ==
  /\ loc' = [loc EXCEPT !.cloudTypes = types, !.timestamp = now]
  /\ pc' = IF loc.authorId # NoAuthor /\ Len(types) > 0 /\ loc.id \notin DOMAIN processed_at
           THEN "testAppend" ELSE "testDone"
  /\ idx' = idx

\* lines 1310-1320: with an author id and at least one category the record
\* is appended next
TestBuilt(types) ==
  /\ loc' = [loc EXCEPT !.cloudTypes = types, !.timestamp = now]
  /\ pc' = IF loc.authorId # NoAuthor /\ Len(types) > 0 THEN "testAppend" ELSE "testDone"
  /\ idx' = idx

\* lines 1231-1308: the content d was fetched; without images or without the
\* target topic the run ends; with the analysis disabled the fixed label is used
TestFetched(d, topic) ==
  /\ log' = log \o <<Event("content", "ok"),
                     Event("images", IF checkImagesInDynamicCard(d) = 0
                                     THEN "none" ELSE "some"),
                     Event("topic", IF topic THEN "yes" ELSE "no")>>
  /\ IF checkImagesInDynamicCard(d) = 0 \/ ~topic
     THEN TestReturn /\ UNCHANGED loc
     ELSE IF config.enableCloudAnalysis
          THEN /\ loc' = [loc EXCEPT !.authorId = extractAuthorId(d),
                                     !.authorName = d.authorName,
                                     !.images = checkImagesInDynamicCard(d)]
               /\ pc' = "testAnalyze"
               /\ idx' = idx
          ELSE /\ loc' = [loc EXCEPT !.authorId = extractAuthorId(d),
                                     !.authorName = d.authorName,
                                     !.images = checkImagesInDynamicCard(d),
                                     !.cloudTypes = <<DefaultLabel>>,
                                     !.timestamp = now]
               /\ pc' = IF extractAuthorId(d) # NoAuthor THEN "testAppend" ELSE "testDone"
               /\ idx' = idx

\* lines 1197-1207: the opus detail API answers; without an item the general
\* API is tried
TestDetailOpus(outcome, d, topic) ==
  /\ pc = "testDetailOpus"
  /\ IF outcome = "ok" THEN TestFetched(d, topic)
     ELSE /\ pc' = "testDetailGeneral"
          /\ log' = Append(log, Event("content", "fail"))
          /\ UNCHANGED <<idx, loc>>
  /\ UNCHANGED <<store, now, config, isProcessing, atMessages, posts, dayPosts,
                 visible, cleared, ledgerAtStart, pre, faults, crashes, passes,
                 apiHistory, dropped>>

\* lines 1209-1224: the general detail API answers; without an item the run ends
TestDetailGeneral(outcome, d, topic) ==
  /\ pc = "testDetailGeneral"
  /\ IF outcome = "ok" THEN TestFetched(d, topic)
     ELSE /\ TestReturn
          /\ log' = Append(log, Event("content", "fail"))
          /\ UNCHANGED loc
  /\ UNCHANGED <<store, now, config, isProcessing, atMessages, posts, dayPosts,
                 visible, cleared, ledgerAtStart, pre, faults, crashes, passes,
                 apiHistory, dropped>>

\* lines 1277-1298: analyzeMultipleImagesWithTypes answers; a failure ends the run
TestAnalyze(outcome, types) ==
  /\ pc = "testAnalyze"
  /\ log' = Append(log, Event("decision", outcome))
  /\ IF outcome = "ok" THEN TestBuilt(types) ELSE TestReturn /\ UNCHANGED loc
  /\ UNCHANGED <<store, now, config, isProcessing, atMessages, posts, dayPosts,
                 visible, cleared, ledgerAtStart, pre, faults, crashes, passes,
                 apiHistory, dropped>>

\* lines 1312-1326: recordCheckIn, get and put of user:<id>; a failed put is
\* caught at line 1350 and the run ends
TestAppend(outcome) ==
  /\ pc = "testAppend"
  /\ Fault(outcome # "ok")
  /\ IF outcome = "putFault"
     THEN /\ pc' = "testDone"
          /\ log' = Append(log, Event("stats", "fault"))
          /\ UNCHANGED user
     ELSE /\ pc' = "testMirror"
          /\ user' = Put(user, loc.authorId,
                         recordCheckIn(loc.authorId, UserNameOf(loc), RecordOf(loc),
                                       outcome = "getFault"))
          /\ log' = Append(log, Event("stats", "ok"))
  /\ UNCHANGED <<processed_at, daily_comment, record, now, config, isProcessing,
                 atMessages, idx, loc, posts, dayPosts, visible, cleared,
                 ledgerAtStart, pre, crashes, passes, apiHistory, dropped>>

\* lines 1326-1347: put of record:<id>:<timestamp>, getUserStats, and the
\* check-in image written to a local file; then the run ends
TestMirror(outcome) ==
  /\ pc = "testMirror"
  /\ Fault(outcome # "ok")
  /\ IF outcome = "putFault"
     THEN UNCHANGED <<record, loc>>
     ELSE /\ record' = Put(record, <<loc.authorId, loc.timestamp>>, RecordOf(loc))
          /\ loc' = [loc EXCEPT !.recordSaved = TRUE, !.userStats = (outcome = "ok")]
  /\ pc' = "testDone"
  /\ UNCHANGED <<processed_at, daily_comment, user, now, config, isProcessing,
                 atMessages, idx, log, posts, dayPosts, visible, cleared,
                 ledgerAtStart, pre, crashes, passes, apiHistory, dropped>>

\* the process exits; it can be started again
TestExit ==
  /\ pc = "testDone"
  /\ pc' = "idle"
  /\ UNCHANGED <<store, now, config, isProcessing, atMessages, idx, loc, history,
                 apiHistory, dropped>>

\* runs of test mode whose store operations complete
NextTest ==
  \/ AdvanceClock
  \/ \E items \in Feeds \cup {<<>>}, uri \in Uris : TestFeed(items, uri)
  \/ \E outcome \in {"ok", "none", "error"}, d \in Details(now), topic \in BOOLEAN :
       TestDetailOpus(outcome, d, topic)
  \/ \E outcome \in {"ok", "none", "error"}, d \in Details(now), topic \in BOOLEAN :
       TestDetailGeneral(outcome, d, topic)
  \/ \E outcome \in {"ok", "fail"}, types \in AnalysisResults : TestAnalyze(outcome, types)
  \/ TestAppend("ok")
  \/ TestMirror("ok")
  \/ TestExit

SpecTest == InitTest /\ [][NextTest]_vars

\* the records of old are the first records of new
PrefixOf(old, new) == Len(old) <= Len(new) /\ SubSeq(new, 1, Len(old)) = old

\* C36: no step of test mode publishes, writes the ledger or writes a daily
\* mark, and none removes a record from the statistics; a run that got the
\* content with image and topic, an author id and the categories has, when
\* it returns, appended the check-in record to that author's statistics,
\* whether or not the ledger holds the notification or the author is marked.
C36_TestModeOnlyAppends ==
  /\ [][ /\ processed_at' = processed_at
         /\ daily_comment' = daily_comment
         /\ posts' = posts
         /\ dayPosts' = dayPosts
         /\ \A u \in Authors : PrefixOf(RecordsOf(user, u), RecordsOf(user', u)) ]_vars
  /\ []((pc = "testDone" /\ loc.cloudTypes # <<>> /\ loc.authorId # NoAuthor) =>
          LET recs == RecordsOf(user, loc.authorId)
          IN /\ recs # <<>>
             /\ recs[Len(recs)] = RecordOf(loc)
             /\ record[<<loc.authorId, loc.timestamp>>] = RecordOf(loc))

\* a run for a notification the ledger holds, of an author marked for the
\* day, has appended a second record; nothing was published
C36_Witness ==
  /\ pc = "testDone"
  /\ loc.id \in DOMAIN processed_at
  /\ <<loc.authorId, DateKey(now)>> \in daily_comment
  /\ Len(RecordsOf(user, loc.authorId)) = 2
  /\ user[loc.authorId].checkInRecords[2] = RecordOf(loc)
  /\ user[loc.authorId].totalCheckIns = 2
  /\ \A id \in MsgIds : posts[id] = 0

\* C37: isProcessing is set exactly while a call of checkAndComment is in
\* flight: every way out of a cycle (nothing in the feed or a failed feed
\* request, the end of the loop) leaves it cleared, and a call is dropped
\* only while a cycle is in flight, never because of a cycle that has ended.
C37_BusyWhileInFlight ==
  /\ [](isProcessing <=> pc # "idle")
  /\ [][ /\ (pc # "idle" /\ pc' = "idle") => ~isProcessing'
         /\ (dropped' # dropped) => pc # "idle" ]_vars

\* a cycle that published has ended, a call was dropped while a cycle was in
\* flight, and a later call has started the next cycle
C37_Witness ==
  /\ pc = "feed"
  /\ isProcessing
  /\ dropped = 1
  /\ \E id \in MsgIds : posts[id] = 1 /\ isAtMessageProcessed(id, FALSE)

\* the notification of the pass was published by an earlier pass and the
\* ledger did not hold it when this pass started
PublishedUnrecorded ==
  /\ posts[loc.id] >= 1
  /\ ~Made("publisher")
  /\ loc.id \notin DOMAIN processed_at \/ Has("ledger", "ok")

AuthorUnknown ==
  /\ Has("age", "fresh")
  /\ Has("images", "some")
  /\ loc.authorId = NoAuthor

\* C39: a pass for fresh content with an image but without an extractable
\* author id asks no rate-limit question, appends nothing to the statistics,
\* renders no image, writes no mark and rolls nothing back; unless the reply
\* list or the analysis stops it, it calls the Publisher; after a successful
\* publish the notification is in the ledger, after a failed one it is not.
C39_NoAuthorStillPublishes ==
  (PassEnded /\ AuthorUnknown) =>
    /\ ~Made("gate") /\ ~Made("stats") /\ ~Made("renderer")
    /\ ~Made("mark") /\ ~Made("rollback")
    /\ user = pre
    /\ \A d \in Days : <<NoAuthor, d>> \notin daily_comment
    /\ (Has("replies", "none") /\ ~Has("decision", "fail")) => Made("publisher")
    /\ Has("publisher", "ok") => isAtMessageProcessed(loc.id, FALSE)
    /\ Has("publisher", "fail") =>
         ~Made("ledger") /\ ~isAtMessageProcessed(loc.id, FALSE)

\* the publish for content without author id failed: nothing was recorded
C39_Witness ==
  /\ PassEnded
  /\ AuthorUnknown
  /\ Has("decision", "ok")
  /\ Has("publisher", "fail")
  /\ ~isAtMessageProcessed(loc.id, FALSE)
  /\ user = pre

\* ------------------------------------------------------------------------
\* Store-level specification: statistics calls on a store whose user U2 has
\* almost no record left: either one check-in recorded and rolled back, or
\* 101 check-ins recorded (the oldest evicted) and 99 rolled back
\* ------------------------------------------------------------------------
\* rollbackLastCheckIn applied n times, by halves
RECURSIVE RollbackTimes(_, _)
RollbackTimes(s, n) ==
  IF n = 0 THEN s
  ELSE IF n = 1 THEN rollbackLastCheckIn(s)
  ELSE LET half == RollbackTimes(s, n \div 2)
       IN \* the first half is computed before the second is started
          IF half.totalCheckIns >= 0 THEN RollbackTimes(half, n - n \div 2) ELSE half

InitEvicted ==
  LET k == MaxRecords + 1 IN
  /\ processed_at = [x \in {1} |-> ProcessedAtMessage(1, "9", -1)]
  /\ daily_comment = {<<"U2", DateKey(-1)>>}
  /\ user = [x \in {"U2"} |->
               RollbackTimes(PastStats(NewUserStats("alice", PastRecord(1, k)), 1, k, k),
                             MaxRecords - 1)]
  /\ record = [x \in {<<"U2", i - k - 1>> : i \in 1..2} |-> PastRecord(x[2] + k + 1, k)]
  /\ appended = [u \in Authors |-> IF u = "U2" THEN k ELSE 0]
  /\ catSum = [u \in Authors |->
                 IF u = "U2"
                 THEN Cardinality({p \in (1..k) \X (1..2) :
                                     p[2] <= Len(PastRecord(p[1], k).cloudTypes)})
                 ELSE 0]
  /\ now = 0
  /\ config = DefaultConfig
  /\ InitMemory
  /\ InitHistory
  /\ nCalls = 0
  /\ calls = <<>>
  /\ rolledBack = [u \in Authors |-> IF u = "U2" THEN MaxRecords - 1 ELSE 0]
  /\ marked = {}

InitDrain == InitUndo \/ InitEvicted

SpecDrain == InitDrain /\ [][NextStats]_vars

\* firstCheckIn is set by the recordCheckIn that creates the stats and by no
\* later call, and stats are never removed
FirstCheckInKept ==
  [][ \A u \in Authors :
        IF u \in DOMAIN user
        THEN /\ u \in DOMAIN user'
             /\ user'[u].firstCheckIn = user[u].firstCheckIn
        ELSE u \in DOMAIN user' => user'[u].firstCheckIn = now ]_vars

====
